---- MODULE Spec2Model ----
(***************************************************************************)
(* State-machine model of fastdraw's loose-quadtree ObjectStore            *)
(* (src/fastdraw/src/core/ObjectStore.ts) and its node pool                *)
(* (ObjectStoreNodePool, src/unnamed/part_004).                            *)
(*                                                                         *)
(* Every public operation is one action; its effect is computed by         *)
(* operators that follow the TypeScript statement by statement on a record *)
(* `s` whose fields carry the names of the classes' fields.  Coordinates   *)
(* are world units; every box of the model lies on a 64-unit grid, so all  *)
(* halvings done by the code are exact and Float32 storage is lossless.    *)
(* Typed arrays are functions on 0..n-1 that are extended with the array's *)
(* fill value the first time a slot is written.  An exception thrown by    *)
(* the node pool is the field `thrown`: once set, the rest of the handler  *)
(* is skipped and the state is left as the throw left it.                  *)
(***************************************************************************)
EXTENDS Integers, Sequences, FiniteSets, TLC

(* ---------------------------------------------------------------- bounds *)
\* Object ids the callers use (uuid strings in the code).
MaxIds == 3
\* Longest run of operations explored.
MaxOps == 4
MaxOpsFullPool == 3

(* ------------------------------------------------------- program options *)
\* The options of the store under study: DEFAULT_OPTIONS, except that
\* maxObjectsPerNode and mergeThreshold (32 and 12 by default) are configured
\* to 1 so that splits and merges happen within a few operations.
minNodeSize == 256
maxDepth == 8
maxObjectsPerNode == 1
mergeThreshold == 1
dynamicUpdateThreshold == 6
dynamicUpdateWindow == 16
nodePoolSize == 16384
\* A pool with room for the root only: the first split exhausts it.
smallNodePoolSize == 1
\* A pool with room for the root and two splits.
fullNodePoolSize == 9
CHILDREN_PER_NODE == 4
\* objectCapacity and objectRefCapacity (4096 by default) are configured to
\* 2, so that the third handle and the third reference grow their arenas.
smallObjectCapacity == 2
smallObjectRefCapacity == 2

\* this.options, as far as the operations below read it: the options of the
\* runs explored, and DEFAULT_OPTIONS.
ScaledOptions ==
  [ maxObjectsPerNode |-> maxObjectsPerNode, mergeThreshold |-> mergeThreshold,
    objectCapacity |-> smallObjectCapacity,
    objectRefCapacity |-> smallObjectRefCapacity,
    dynamicUpdateThreshold |-> dynamicUpdateThreshold,
    dynamicUpdateWindow |-> dynamicUpdateWindow ]
DEFAULT_OPTIONS ==
  [ maxObjectsPerNode |-> 32, mergeThreshold |-> 12,
    objectCapacity |-> 4096, objectRefCapacity |-> 4096,
    dynamicUpdateThreshold |-> dynamicUpdateThreshold,
    dynamicUpdateWindow |-> dynamicUpdateWindow ]

\* Options under which an object turns Dynamic within a few updates: the
\* threshold and the window (6 and 16 by default) are configured to
\* smallDynamicUpdateThreshold and smallDynamicUpdateWindow.
smallDynamicUpdateThreshold == 2
smallDynamicUpdateWindow == 3
ChurnOptions ==
  [ ScaledOptions EXCEPT !.dynamicUpdateThreshold = smallDynamicUpdateThreshold,
                         !.dynamicUpdateWindow = smallDynamicUpdateWindow ]

Ids == 1..MaxIds
NoId == 0            \* null in handleToId
None == -1           \* the code's -1: no node, no ref, no child

\* Bounding boxes <<x, y, width, height>> the callers pass.
Boxes ==
  { <<0, 0, 64, 64>>,          \* inside the initial root, north-west
    <<64, 64, 128, 128>>,      \* straddles the initial root's centre
    <<1024, 1024, 64, 64>>,    \* far away: grows the root
    <<512, 512, 64, 64>> }     \* straddles the grown root's centre (544)

\* Query rectangles: every box itself and the whole plane that is in use.
Queries == Boxes \cup { <<0, 0, 2048, 2048>> }

(* --------------------------------------------------------------- helpers *)
Max(a, b) == IF a >= b THEN a ELSE b
Min(a, b) == IF a <= b THEN a ELSE b

Last(q) == q[Len(q)]
Front(q) == SubSeq(q, 1, Len(q) - 1)

\* Read of a typed array: `d` outside its allocated part.
Get(f, i, d) == IF i \in DOMAIN f THEN f[i] ELSE d

\* Write of a typed array slot, allocating the slots up to it with fill `d`.
Put(f, i, v, d) ==
  [x \in (DOMAIN f) \cup (0..i) |->
     IF x = i THEN v ELSE IF x \in DOMAIN f THEN f[x] ELSE d]

\* Map.set / Map.delete.
MapSet(m, k, v) == [x \in (DOMAIN m) \cup {k} |-> IF x = k THEN v ELSE m[x]]
MapDelete(m, k) == [x \in (DOMAIN m) \ {k} |-> m[x]]

ZeroBox == <<0, 0, 0, 0>>
NoChildren == <<None, None, None, None>>

VARIABLES
  \* ObjectStoreNodePool
  capacity, bounds, firstObject, objectCount, parent, children, depth, leaf,
  freeList, nodeCount,
  \* ObjectStore
  objectIndex, handleToId, objectStore, objectBounds, objectFlags, objectNode,
  objectRefIndex, objectUpdateCounter, objectWindowCounter, objectRefHandle,
  objectRefNext, dynamicHandles, handleFreeList, objectRefFreeList,
  objectRefUsed, usedHandles, objectCapacity, objectRefCapacity, options,
  \* The callers' side: the last call and what it reported; for every id
  \* that was removed and is not indexed again, the box and the handle it
  \* had; the box last passed for every id; the number of calls made; for
  \* every indexed id, the number of bounding-box updates applied to it since
  \* it was indexed.
  last, removed, given, ops, applied,
  \* ChunkManager: the chunks by key <<cx, cy>>, the chunk keys recorded for
  \* every object, and the objects by id.
  chunks, objectToChunks, objects,
  \* What the last call to the ChunkManager was, which chunks it rebuilt and
  \* which objects it was given without a box.
  watch,
  \* History: the commands (its stack) and the cursor.
  historyStack, cursor,
  \* FastDrawCore: for every id in objectStore, the fields of the object kept
  \* there other than its box (deleted, zIndex, and which object it is); the
  \* last two calls made to the core, the number of pushes among all, and
  \* the undone commands that pushes have cut from the stack.
  stored, trail,
  \* FastDrawCore.transformState: the scale, in hundredths, and the LOD band.
  transformState,
  \* BoardRenderer: how far init and destroy have come, and what they have
  \* registered.
  renderer

storeVars ==
  << capacity, bounds, firstObject, objectCount, parent, children, depth, leaf,
     freeList, nodeCount, objectIndex, handleToId, objectStore, objectBounds,
     objectFlags, objectNode, objectRefIndex, objectUpdateCounter,
     objectWindowCounter, objectRefHandle, objectRefNext, dynamicHandles,
     handleFreeList, objectRefFreeList, objectRefUsed, usedHandles,
     objectCapacity, objectRefCapacity, options >>

chunkVars == << chunks, objectToChunks, objects, watch >>

boardVars == << historyStack, cursor, stored, trail >>

viewVars == << transformState, renderer >>

vars ==
  << storeVars, last, removed, given, ops, applied, chunkVars, boardVars,
     viewVars >>

\* The store as one record, for the operators below.
Store ==
  [ capacity |-> capacity, bounds |-> bounds, firstObject |-> firstObject,
    objectCount |-> objectCount, parent |-> parent, children |-> children,
    depth |-> depth, leaf |-> leaf, freeList |-> freeList,
    nodeCount |-> nodeCount, objectIndex |-> objectIndex,
    handleToId |-> handleToId, objectStore |-> objectStore,
    objectBounds |-> objectBounds, objectFlags |-> objectFlags,
    objectNode |-> objectNode, objectRefIndex |-> objectRefIndex,
    objectUpdateCounter |-> objectUpdateCounter,
    objectWindowCounter |-> objectWindowCounter,
    objectRefHandle |-> objectRefHandle, objectRefNext |-> objectRefNext,
    dynamicHandles |-> dynamicHandles, handleFreeList |-> handleFreeList,
    objectRefFreeList |-> objectRefFreeList, objectRefUsed |-> objectRefUsed,
    usedHandles |-> usedHandles, objectCapacity |-> objectCapacity,
    objectRefCapacity |-> objectRefCapacity, options |-> options,
    thrown |-> FALSE ]

Commit(s) ==
  /\ capacity' = s.capacity
  /\ bounds' = s.bounds
  /\ firstObject' = s.firstObject
  /\ objectCount' = s.objectCount
  /\ parent' = s.parent
  /\ children' = s.children
  /\ depth' = s.depth
  /\ leaf' = s.leaf
  /\ freeList' = s.freeList
  /\ nodeCount' = s.nodeCount
  /\ objectIndex' = s.objectIndex
  /\ handleToId' = s.handleToId
  /\ objectStore' = s.objectStore
  /\ objectBounds' = s.objectBounds
  /\ objectFlags' = s.objectFlags
  /\ objectNode' = s.objectNode
  /\ objectRefIndex' = s.objectRefIndex
  /\ objectUpdateCounter' = s.objectUpdateCounter
  /\ objectWindowCounter' = s.objectWindowCounter
  /\ objectRefHandle' = s.objectRefHandle
  /\ objectRefNext' = s.objectRefNext
  /\ dynamicHandles' = s.dynamicHandles
  /\ handleFreeList' = s.handleFreeList
  /\ objectRefFreeList' = s.objectRefFreeList
  /\ objectRefUsed' = s.objectRefUsed
  /\ usedHandles' = s.usedHandles
  /\ objectCapacity' = s.objectCapacity
  /\ objectRefCapacity' = s.objectRefCapacity
  /\ options' = s.options

(* ---------------------------------------------------- ObjectStoreNodePool *)
\* obtainNodeId: a released id first, else the next unused one; throws when
\* the pool is full.  Returns the id, or None with s.thrown set.
obtainNodeId(s) ==
  IF Len(s.freeList) > 0
    THEN [s |-> [s EXCEPT !.freeList = Front(s.freeList)], id |-> Last(s.freeList)]
    ELSE IF s.nodeCount >= s.capacity
      THEN [s |-> [s EXCEPT !.thrown = TRUE], id |-> None]
      ELSE [s |-> [s EXCEPT !.nodeCount = s.nodeCount + 1], id |-> s.nodeCount]

allocateNode(s, parentId, d, b) ==
  LET o == obtainNodeId(s)
      n == o.id
  IN IF o.s.thrown THEN o
     ELSE [s |-> [o.s EXCEPT
                    !.bounds = Put(@, n, b, ZeroBox),
                    !.parent = Put(@, n, parentId, None),
                    !.depth = Put(@, n, d, 0),
                    !.leaf = Put(@, n, TRUE, FALSE),
                    !.firstObject = Put(@, n, None, None),
                    !.objectCount = Put(@, n, 0, 0),
                    !.children = Put(@, n, NoChildren, NoChildren)],
           id |-> n]

releaseNode(s, nodeId) ==
  IF nodeId < 0 \/ nodeId >= s.capacity THEN s
  ELSE [s EXCEPT
          !.firstObject = Put(@, nodeId, None, None),
          !.objectCount = Put(@, nodeId, 0, 0),
          !.leaf = Put(@, nodeId, TRUE, FALSE),
          !.children = Put(@, nodeId, NoChildren, NoChildren),
          !.freeList = Append(@, nodeId)]

isLeaf(s, nodeId) == Get(s.leaf, nodeId, FALSE)
getChild(s, nodeId, i) == Get(s.children, nodeId, NoChildren)[i + 1]
setChild(s, nodeId, i, childId) ==
  [s EXCEPT !.children =
     Put(@, nodeId, [Get(s.children, nodeId, NoChildren) EXCEPT ![i + 1] = childId],
         NoChildren)]
getBounds(s, nodeId) == Get(s.bounds, nodeId, ZeroBox)
getFirstObject(s, nodeId) == Get(s.firstObject, nodeId, None)
getObjectCount(s, nodeId) == Get(s.objectCount, nodeId, 0)
getParent(s, nodeId) == Get(s.parent, nodeId, None)

decrementObjectCount(s, nodeId) ==
  IF getObjectCount(s, nodeId) > 0
    THEN [s EXCEPT !.objectCount = Put(@, nodeId, getObjectCount(s, nodeId) - 1, 0)]
    ELSE s

\* createRootBounds: centre and half extents of a world rectangle.
createRootBounds(b) ==
  << b[1] + b[3] \div 2, b[2] + b[4] \div 2, b[3] \div 2, b[4] \div 2 >>

(* ------------------------------------------------------------ ObjectStore *)
rootNodeId == 0
\* scratch.handleStack holds maxObjectsPerNode * 4 entries.
handleStackLength(s) == s.options.maxObjectsPerNode * 4

\* ObjectFlags
Static == "Static"
Dynamic == "Dynamic"
Dirty == "Dirty"
Deleted == "Deleted"
TileCoverageDirty == "TileCoverageDirty"

setBounds(s, nodeId, b) == [s EXCEPT !.bounds = Put(@, nodeId, b, ZeroBox)]
setLeaf(s, nodeId, value) == [s EXCEPT !.leaf = Put(@, nodeId, value, FALSE)]

\* ensureRootBounds: a box outside the root's (tight) bounds replaces the
\* root's bounds by the union of both; no other node's bounds are touched.
ensureRootBounds(s, bbox) ==
  LET nb == getBounds(s, rootNodeId)
      minX == nb[1] - nb[3]
      maxX == nb[1] + nb[3]
      minY == nb[2] - nb[4]
      maxY == nb[2] + nb[4]
      bboxMinX == bbox[1]
      bboxMaxX == bbox[1] + bbox[3]
      bboxMinY == bbox[2]
      bboxMaxY == bbox[2] + bbox[4]
  IN IF bboxMinX >= minX /\ bboxMaxX <= maxX /\ bboxMinY >= minY /\ bboxMaxY <= maxY
       THEN s
       ELSE LET newHalfWidth == (Max(maxX, bboxMaxX) - Min(minX, bboxMinX)) \div 2
                newHalfHeight == (Max(maxY, bboxMaxY) - Min(minY, bboxMinY)) \div 2
                newCenterX == Min(minX, bboxMinX) + newHalfWidth
                newCenterY == Min(minY, bboxMinY) + newHalfHeight
            IN setBounds(s, rootNodeId,
                 << newCenterX, newCenterY,
                    Max(newHalfWidth, minNodeSize \div 2),
                    Max(newHalfHeight, minNodeSize \div 2) >>)

\* expandHandles / resizeHandles: the handle arena doubles; the arrays grow
\* with their fill values, which Put supplies when a slot is first written.
expandHandles(s) == [s EXCEPT !.objectCapacity = @ * 2]

\* obtainHandle: the id's own handle if it is indexed, else a recycled or a
\* fresh one (after growing a full arena), with its arena slots reset.
obtainHandle(s, id) ==
  IF id \in DOMAIN s.objectIndex
    THEN [s |-> s, handle |-> s.objectIndex[id].handle]
    ELSE LET recycled == Len(s.handleFreeList) > 0
             h == IF recycled THEN Last(s.handleFreeList) ELSE s.usedHandles
             grown == IF ~recycled /\ s.usedHandles >= s.objectCapacity
                        THEN expandHandles(s) ELSE s
         IN [s |-> [grown EXCEPT
                      !.handleFreeList = IF recycled THEN Front(@) ELSE @,
                      !.usedHandles = @ + 1,
                      !.handleToId = Put(@, h, id, NoId),
                      !.objectFlags = Put(@, h, {}, {}),
                      !.objectNode = Put(@, h, None, None),
                      !.objectRefIndex = Put(@, h, None, None),
                      !.objectUpdateCounter = Put(@, h, 0, 0),
                      !.objectWindowCounter = Put(@, h, 0, 0)],
             handle |-> h]

\* A faulty variant of writeBoundingBox: a slot that already holds a box (a
\* recycled handle's slot among them) keeps it.
writeBoundingBox_KeepStale(s, handle, bbox) ==
  IF handle \in DOMAIN s.objectBounds
    THEN s
    ELSE [s EXCEPT !.objectBounds = Put(@, handle, bbox, ZeroBox)]

writeBoundingBox(s, handle, bbox) ==
  [s EXCEPT !.objectBounds = Put(@, handle, bbox, ZeroBox)]

readBoundingBox(s, handle) == Get(s.objectBounds, handle, ZeroBox)

\* expandObjectRefs: the reference arena doubles.
expandObjectRefs(s) == [s EXCEPT !.objectRefCapacity = @ * 2]

\* obtainObjectRefIndex: a released slot first, else the next unused one,
\* after growing a full arena.
obtainObjectRefIndex(s) ==
  IF Len(s.objectRefFreeList) > 0
    THEN [s |-> [s EXCEPT !.objectRefFreeList = Front(@)],
          ref |-> Last(s.objectRefFreeList)]
    ELSE [s |-> [(IF s.objectRefUsed >= s.objectRefCapacity
                    THEN expandObjectRefs(s) ELSE s)
                 EXCEPT !.objectRefUsed = @ + 1],
          ref |-> s.objectRefUsed]

attachToNode(s, handle, nodeId) ==
  LET o == obtainObjectRefIndex(s)
      refIndex == o.ref
      first == getFirstObject(o.s, nodeId)
  IN [o.s EXCEPT
        !.objectRefHandle = Put(@, refIndex, handle, 0),
        !.objectRefNext = Put(@, refIndex, first, None),
        !.firstObject = Put(@, nodeId, refIndex, None),
        !.objectCount = Put(@, nodeId, getObjectCount(o.s, nodeId) + 1, 0),
        !.objectRefIndex = Put(@, handle, refIndex, None),
        !.objectNode = Put(@, handle, nodeId, None)]

detachRef(s, nodeId, refIndex, prevRef, handle) ==
  LET next == Get(s.objectRefNext, refIndex, None)
      s1 == IF prevRef = None
              THEN [s EXCEPT !.firstObject = Put(@, nodeId, next, None)]
              ELSE [s EXCEPT !.objectRefNext = Put(@, prevRef, next, None)]
      s2 == [s1 EXCEPT !.objectRefNext = Put(@, refIndex, None, None),
                       !.objectRefHandle = Put(@, refIndex, 0, 0)]
      s3 == IF handle >= 0 /\ handle \in DOMAIN s2.objectRefIndex
               /\ s2.objectRefIndex[handle] = refIndex
              THEN [s2 EXCEPT !.objectRefIndex = Put(@, handle, None, None),
                              !.objectNode = Put(@, handle, None, None)]
              ELSE s2
  IN decrementObjectCount(
       [s3 EXCEPT !.objectRefFreeList = Append(@, refIndex)], nodeId)

\* The walk of purgeHandleFromNode from reference `current`; `fuel` is the
\* number of references that exist, which an acyclic list cannot exceed.
RECURSIVE purgeWalk(_, _, _, _, _, _)
purgeWalk(s, handle, nodeId, current, prev, fuel) ==
  IF current = None \/ fuel = 0
    THEN [s |-> s, removed |-> FALSE]
    ELSE IF Get(s.objectRefHandle, current, 0) = handle
      THEN [s |-> detachRef(s, nodeId, current, prev, handle), removed |-> TRUE]
      ELSE purgeWalk(s, handle, nodeId, Get(s.objectRefNext, current, None),
                     current, fuel - 1)

purgeHandleFromNode(s, handle, nodeId) ==
  IF nodeId = None
    THEN [s |-> s, removed |-> FALSE]
    ELSE purgeWalk(s, handle, nodeId, getFirstObject(s, nodeId), None,
                   s.objectRefUsed + 1)

\* The inner while of tryMerge: every reference of the child's list is
\* re-attached to the parent through a NEW reference slot.
RECURSIVE mergeList(_, _, _, _)
mergeList(s, parentId, ref, fuel) ==
  IF ref = None \/ fuel = 0 THEN s
  ELSE LET s1 == attachToNode(s, Get(s.objectRefHandle, ref, 0), parentId)
       IN mergeList(s1, parentId, Get(s1.objectRefNext, ref, None), fuel - 1)

RECURSIVE mergeChildren(_, _, _)
mergeChildren(s, parentId, i) ==
  IF i = CHILDREN_PER_NODE THEN s
  ELSE LET childId == getChild(s, parentId, i)
       IN IF childId = None THEN mergeChildren(s, parentId, i + 1)
          ELSE LET s1 == mergeList(s, parentId, getFirstObject(s, childId),
                                   s.objectRefUsed + 1)
                   s2 == releaseNode(s1, childId)
               IN mergeChildren(setChild(s2, parentId, i, None), parentId, i + 1)

\* The first loop of tryMerge: <<canMerge, total>>; the scan stops at the
\* first child that is not a leaf.
RECURSIVE mergeScan(_, _, _, _)
mergeScan(s, parentId, i, total) ==
  IF i = CHILDREN_PER_NODE THEN << TRUE, total >>
  ELSE LET childId == getChild(s, parentId, i)
       IN IF childId = None THEN mergeScan(s, parentId, i + 1, total)
          ELSE IF ~isLeaf(s, childId) THEN << FALSE, total >>
          ELSE mergeScan(s, parentId, i + 1, total + getObjectCount(s, childId))

\* A faulty variant of tryMerge: the merge is made only when the children
\* hold fewer than mergeThreshold references.
tryMerge_Below(s, nodeId) ==
  LET parentId == getParent(s, nodeId)
  IN IF parentId = None THEN s
     ELSE LET scan == mergeScan(s, parentId, 0, 0)
          IN IF ~scan[1] \/ scan[2] >= s.options.mergeThreshold THEN s
             ELSE setLeaf(mergeChildren(s, parentId, 0), parentId, TRUE)

tryMerge(s, nodeId) ==
  LET parentId == getParent(s, nodeId)
  IN IF parentId = None THEN s
     ELSE LET scan == mergeScan(s, parentId, 0, 0)
          IN IF ~scan[1] \/ scan[2] > s.options.mergeThreshold THEN s
             ELSE setLeaf(mergeChildren(s, parentId, 0), parentId, TRUE)

detachFromNode(s, handle, nodeId) ==
  IF nodeId = None THEN s
  ELSE LET p == purgeHandleFromNode(s, handle, nodeId)
       IN IF p.removed THEN tryMerge(p.s, nodeId) ELSE p.s

\* selectChild: the quadrant that fully contains the box, or None.
selectChild(s, nodeId, bbox, d) ==
  IF d >= maxDepth THEN None
  ELSE LET nb == getBounds(s, nodeId)
           midX == nb[1]
           midY == nb[2]
           fitsLeft == bbox[1] + bbox[3] <= midX
           fitsRight == bbox[1] >= midX
           fitsTop == bbox[2] + bbox[4] <= midY
           fitsBottom == bbox[2] >= midY
       IN IF nb[3] <= minNodeSize /\ nb[4] <= minNodeSize THEN None
          ELSE IF fitsLeft
            THEN (IF fitsTop THEN 0 ELSE IF fitsBottom THEN 2 ELSE None)
            ELSE IF fitsRight
              THEN (IF fitsTop THEN 1 ELSE IF fitsBottom THEN 3 ELSE None)
              ELSE None

\* fitsNode: the box lies within the node's loose bounds (half extents times
\* looseness 1.5; both sides are doubled to stay in the integers).
fitsNode(s, nodeId, bbox) ==
  LET nb == getBounds(s, nodeId)
  IN /\ 2 * bbox[1] >= 2 * nb[1] - 3 * nb[3]
     /\ 2 * bbox[2] >= 2 * nb[2] - 3 * nb[4]
     /\ 2 * (bbox[1] + bbox[3]) <= 2 * nb[1] + 3 * nb[3]
     /\ 2 * (bbox[2] + bbox[4]) <= 2 * nb[2] + 3 * nb[4]

\* The handles of a node's list, in list order, at most `limit` of them.
RECURSIVE listHandles(_, _, _)
listHandles(s, ref, limit) ==
  IF ref = None \/ limit = 0 THEN << >>
  ELSE << Get(s.objectRefHandle, ref, 0) >>
         \o listHandles(s, Get(s.objectRefNext, ref, None), limit - 1)

\* The second loop of redistribute.
RECURSIVE redistributeLoop(_, _, _, _, _)
redistributeLoop(s, nodeId, d, stack, i) ==
  IF i > Len(stack) THEN s
  ELSE LET handle == stack[i]
           childIndex == selectChild(s, nodeId, readBoundingBox(s, handle), d)
           childId == IF childIndex = None THEN None
                      ELSE getChild(s, nodeId, childIndex)
       IN IF childIndex # None /\ childId # None
            THEN redistributeLoop(
                   attachToNode(detachFromNode(s, handle, nodeId), handle, childId),
                   nodeId, d, stack, i + 1)
            ELSE redistributeLoop(s, nodeId, d, stack, i + 1)

redistribute(s, nodeId, d) ==
  redistributeLoop(s, nodeId, d,
    listHandles(s, getFirstObject(s, nodeId), handleStackLength(s)), 1)

\* The allocation loop of splitNode from child i on; stops at a throw.
RECURSIVE splitAllocate(_, _, _, _, _)
splitAllocate(s, nodeId, childDepth, childBounds, i) ==
  IF i = CHILDREN_PER_NODE THEN s
  ELSE LET a == allocateNode(s, nodeId, childDepth, childBounds[i + 1])
       IN IF a.s.thrown THEN a.s
          ELSE splitAllocate(setChild(a.s, nodeId, i, a.id), nodeId, childDepth,
                             childBounds, i + 1)

\* splitNode once the children are allocated (s.thrown: one was not).
splitRedistribute(s, nodeId, d) ==
  IF s.thrown THEN s ELSE redistribute(s, nodeId, d)

splitNode(s, nodeId, d) ==
  LET nb == getBounds(s, nodeId)
      halfWidth == nb[3] \div 2
      halfHeight == nb[4] \div 2
      centerX == nb[1]
      centerY == nb[2]
      childBounds ==
        << << centerX - halfWidth, centerY - halfHeight, halfWidth, halfHeight >>,
           << centerX + halfWidth, centerY - halfHeight, halfWidth, halfHeight >>,
           << centerX - halfWidth, centerY + halfHeight, halfWidth, halfHeight >>,
           << centerX + halfWidth, centerY + halfHeight, halfWidth, halfHeight >> >>
  IN splitRedistribute(
       splitAllocate(setLeaf(s, nodeId, FALSE), nodeId, d + 1, childBounds, 0),
       nodeId, d)

\* The while (true) of insertHandle from node nodeId at depth d:
\* insertDescend is one turn up to the split, insertBelow the rest of it.
RECURSIVE insertDescend(_, _, _, _, _)
insertBelow(s, handle, bbox, nodeId, d) ==
  LET childIndex == selectChild(s, nodeId, bbox, d)
      childId == IF childIndex = None THEN None
                 ELSE getChild(s, nodeId, childIndex)
  IN IF s.thrown THEN [s |-> s, nodeId |-> None]
     ELSE IF childIndex = None \/ childId = None
       THEN [s |-> attachToNode(s, handle, nodeId), nodeId |-> nodeId]
       ELSE IF d + 1 > maxDepth + 5
         THEN [s |-> attachToNode(s, handle, childId), nodeId |-> childId]
         ELSE insertDescend(s, handle, bbox, childId, d + 1)

insertDescend(s, handle, bbox, nodeId, d) ==
  LET wasLeaf == isLeaf(s, nodeId)
      room == getObjectCount(s, nodeId) < s.options.maxObjectsPerNode \/ d >= maxDepth
  IN IF wasLeaf /\ room
       THEN [s |-> attachToNode(s, handle, nodeId), nodeId |-> nodeId]
       ELSE insertBelow(IF wasLeaf THEN splitNode(s, nodeId, d) ELSE s,
                        handle, bbox, nodeId, d)

insertHandle(s, handle, bbox) ==
  insertDescend(ensureRootBounds(s, bbox), handle, bbox, rootNodeId, 0)

bumpDynamicCounters(s, handle) ==
  LET updateCount == Get(s.objectUpdateCounter, handle, 0) + 1
      windowCount == Get(s.objectWindowCounter, handle, 0) + 1
      reset == windowCount >= s.options.dynamicUpdateWindow
      s1 == [s EXCEPT
               !.objectUpdateCounter = Put(@, handle, IF reset THEN 0 ELSE updateCount, 0),
               !.objectWindowCounter = Put(@, handle, IF reset THEN 0 ELSE windowCount, 0)]
  IN IF updateCount >= s.options.dynamicUpdateThreshold
        /\ Dynamic \notin Get(s1.objectFlags, handle, {})
       THEN [s1 EXCEPT
               !.objectFlags = Put(@, handle, Get(s1.objectFlags, handle, {}) \cup {Dynamic}, {}),
               !.dynamicHandles = Append(@, handle)]
       ELSE s1

\* The end of insert: r is what insertHandle returned.
insertRecord(r, id, handle, flags) ==
  IF r.s.thrown THEN r.s
  ELSE [r.s EXCEPT
          !.objectIndex = MapSet(@, id, [handle |-> handle, nodeId |-> r.nodeId]),
          !.objectNode = Put(@, handle, r.nodeId, None),
          !.objectFlags = Put(@, handle, flags, {})]

\* insert from the purge of the handle's old reference on.
insertPurged(s, id, handle, bbox, flags) ==
  LET nodeId == Get(s.objectNode, handle, None)
  IN insertRecord(
       insertHandle(IF nodeId # None THEN purgeHandleFromNode(s, handle, nodeId).s
                    ELSE s,
                    handle, bbox),
       id, handle, flags)

\* insert(objectId, bbox, flags).  A throw of the node pool leaves the handle
\* obtained and the box written, and the id not indexed.
insert(s, id, bbox, flags) ==
  LET o == obtainHandle(s, id)
  IN insertPurged(ensureRootBounds(writeBoundingBox(o.s, o.handle, bbox), bbox),
                  id, o.handle, bbox, flags)

\* A faulty variant of remove: the used-handle count is decremented without
\* looking the id up.
remove_Uncounted(s, id) == [s EXCEPT !.usedHandles = @ - 1]

\* remove(objectId).
remove(s, id) ==
  IF id \notin DOMAIN s.objectIndex THEN s
  ELSE LET record == s.objectIndex[id]
           s1 == detachFromNode(s, record.handle, record.nodeId)
       IN [s1 EXCEPT
             !.objectFlags = Put(@, record.handle,
                                 Get(s1.objectFlags, record.handle, {}) \cup {Deleted}, {}),
             !.handleToId = Put(@, record.handle, NoId, NoId),
             !.objectIndex = MapDelete(@, id),
             !.objectNode = Put(@, record.handle, None, None),
             !.objectRefIndex = Put(@, record.handle, None, None),
             !.handleFreeList = Append(@, record.handle),
             !.usedHandles = @ - 1]

\* The end of updateBoundingBox: the flags and the counters.
updateFlags(s, handle, status) ==
  [s |-> bumpDynamicCounters(
           [s EXCEPT !.objectFlags = Put(@, handle,
               Get(s.objectFlags, handle, {}) \cup {Dirty, TileCoverageDirty}, {})],
           handle),
   status |-> status]

\* The 'moved' branch of updateBoundingBox: r is what insertHandle returned.
updateMoved(r, id, handle) ==
  IF r.s.thrown THEN [s |-> r.s, status |-> "thrown"]
  ELSE updateFlags(
         [r.s EXCEPT
            !.objectIndex = MapSet(@, id, [handle |-> handle, nodeId |-> r.nodeId]),
            !.objectNode = Put(@, handle, r.nodeId, None)],
         handle, "moved")

\* updateBoundingBox from the fitsNode test on (the box is written).
updateWritten(s, id, handle, currentNode, bbox) ==
  IF fitsNode(s, currentNode, bbox)
    THEN updateFlags(s, handle, "updated")
    ELSE updateMoved(
           insertHandle(detachFromNode(s, handle, currentNode), handle, bbox),
           id, handle)

\* updateBoundingBox(objectId, bbox): the store and the status it reports
\* ("thrown" when the node pool threw during the re-insertion).
updateBoundingBox(s, id, bbox) ==
  IF id \notin DOMAIN s.objectIndex THEN [s |-> s, status |-> "failed"]
  ELSE LET record == s.objectIndex[id]
       IN updateWritten(writeBoundingBox(s, record.handle, bbox), id,
                        record.handle, record.nodeId, bbox)

\* What add reports after insert.
inserted(s) == [s |-> s, status |-> IF s.thrown THEN "thrown" ELSE "inserted"]

\* add(obj): the object goes into objectStore, then insert or update.
add(s, id, bbox) ==
  IF id \in DOMAIN s.objectIndex
    THEN updateBoundingBox([s EXCEPT !.objectStore = MapSet(@, id, bbox)], id, bbox)
    ELSE inserted(insert([s EXCEPT !.objectStore = MapSet(@, id, bbox)], id, bbox, {}))

\* bulkLoad of one object (reuseBuffers = true).
bulkLoad(s, id, bbox) ==
  insert([s EXCEPT !.objectStore = MapSet(@, id, bbox)], id, bbox, {Static})

\* get(objectId): the object kept in objectStore, or absent; no external
\* getter is attached anywhere in the repository.
Absent == << >>
get(s, id) == IF id \in DOMAIN s.objectStore THEN s.objectStore[id] ELSE Absent

\* A faulty variant of bboxIntersects: the x extents are not compared.
bboxIntersects_YOnly(lhs, rhs) ==
  /\ lhs[2] < rhs[2] + rhs[4]
  /\ lhs[2] + lhs[4] > rhs[2]

bboxIntersects(lhs, rhs) ==
  /\ lhs[1] < rhs[1] + rhs[3]
  /\ lhs[1] + lhs[3] > rhs[1]
  /\ lhs[2] < rhs[2] + rhs[4]
  /\ lhs[2] + lhs[4] > rhs[2]

\* nodeIntersects: the rectangle meets the node's loose bounds (doubled).
nodeIntersects(s, nodeId, q) ==
  LET nb == getBounds(s, nodeId)
  IN /\ 2 * nb[1] - 3 * nb[3] < 2 * (q[1] + q[3])
     /\ 2 * nb[1] + 3 * nb[3] > 2 * q[1]
     /\ 2 * nb[2] - 3 * nb[4] < 2 * (q[2] + q[4])
     /\ 2 * nb[2] + 3 * nb[4] > 2 * q[2]

\* The test of findInBounds that sends a reference to the defensive purge.
\* A faulty variant of the test: the node the handle is assigned to is not
\* compared with the node being walked.
invalidHandle_NoNodeTest(s, handle, nodeId) ==
  \/ handle < 0
  \/ handle >= s.objectCapacity
  \/ Get(s.handleToId, handle, NoId) = NoId
  \/ Deleted \in Get(s.objectFlags, handle, {})

invalidHandle(s, handle, nodeId) ==
  \/ handle < 0
  \/ handle >= s.objectCapacity
  \/ Get(s.handleToId, handle, NoId) = NoId
  \/ Get(s.objectNode, handle, None) # nodeId
  \/ Deleted \in Get(s.objectFlags, handle, {})

\* The inner while of findInBounds over one node's list (options default:
\* includeDynamic, mode 'nonDeleted'; the out buffer is large enough).
RECURSIVE findWalk(_, _, _, _, _, _, _, _)
findWalk(s, q, nodeId, ref, prevRef, traversed, maxTraverse, out) ==
  IF ref = None \/ traversed >= maxTraverse
    THEN [s |-> s, out |-> out, traversed |-> traversed]
    ELSE LET handle == Get(s.objectRefHandle, ref, 0)
             next == Get(s.objectRefNext, ref, None)
         IN IF invalidHandle(s, handle, nodeId)
              THEN findWalk(detachRef(s, nodeId, ref, prevRef, handle), q, nodeId,
                            next, prevRef, traversed + 1, maxTraverse, out)
              ELSE findWalk(s, q, nodeId, next, ref, traversed + 1, maxTraverse,
                            IF bboxIntersects(readBoundingBox(s, handle), q)
                              THEN Append(out, handle) ELSE out)

\* The children of a node that exist, in slot order.
RECURSIVE childrenOf(_, _, _)
childrenOf(s, nodeId, i) ==
  IF i = CHILDREN_PER_NODE THEN << >>
  ELSE (IF getChild(s, nodeId, i) # None THEN << getChild(s, nodeId, i) >> ELSE << >>)
         \o childrenOf(s, nodeId, i + 1)

\* The outer while of findInBounds: the explicit stack, and the visit guard,
\* which ends the call with nothing found when more than maxVisits nodes
\* have been popped (MAX_NODE_VISITS in the code).
MAX_NODE_VISITS == 10000
RECURSIVE findLoop(_, _, _, _, _, _)
findLoop(s, q, stack, visited, out, maxVisits) ==
  IF Len(stack) = 0 THEN [s |-> s, out |-> out]
  ELSE LET nodeId == Last(stack)
           rest == Front(stack)
       IN IF visited + 1 > maxVisits THEN [s |-> s, out |-> << >>]
          ELSE IF ~nodeIntersects(s, nodeId, q)
            THEN findLoop(s, q, rest, visited + 1, out, maxVisits)
            ELSE LET maxTraverse == getObjectCount(s, nodeId) * 2 + 10
                     w == findWalk(s, q, nodeId, getFirstObject(s, nodeId), None,
                                   0, maxTraverse, out)
                 IN IF w.traversed >= maxTraverse
                      THEN [s |-> w.s, out |-> w.out]
                      ELSE findLoop(w.s, q, rest \o childrenOf(w.s, nodeId, 0),
                                    visited + 1, w.out, maxVisits)

\* findInBounds(bounds, outBuffer): the handles written, and the store
\* after the purges the walk made.
findInBounds(s, q) ==
  findLoop(s, q, << rootNodeId >>, 0, << >>, MAX_NODE_VISITS)

(* ------------------------------------------------------------ the machine *)
\* new ObjectStore(options): the root covers {0, 0, minNodeSize, minNodeSize}.
Constructed(poolSize, opts) ==
  allocateNode(
    [ capacity |-> poolSize, bounds |-> << >>, firstObject |-> << >>,
      objectCount |-> << >>, parent |-> << >>, children |-> << >>,
      depth |-> << >>, leaf |-> << >>, freeList |-> << >>, nodeCount |-> 0,
      objectIndex |-> << >>, handleToId |-> << >>, objectStore |-> << >>,
      objectBounds |-> << >>, objectFlags |-> << >>, objectNode |-> << >>,
      objectRefIndex |-> << >>, objectUpdateCounter |-> << >>,
      objectWindowCounter |-> << >>, objectRefHandle |-> << >>,
      objectRefNext |-> << >>, dynamicHandles |-> << >>,
      handleFreeList |-> << >>, objectRefFreeList |-> << >>,
      objectRefUsed |-> 0, usedHandles |-> 0,
      objectCapacity |-> opts.objectCapacity,
      objectRefCapacity |-> opts.objectRefCapacity, options |-> opts,
      thrown |-> FALSE ],
    None, 0, createRootBounds(<< 0, 0, minNodeSize, minNodeSize >>)).s

\* The machine starts with the store in state s, the callers having passed
\* the boxes `boxes` (id -> box) so far.
InitFrom(s, boxes) ==
     /\ capacity = s.capacity
     /\ bounds = s.bounds
     /\ firstObject = s.firstObject
     /\ objectCount = s.objectCount
     /\ parent = s.parent
     /\ children = s.children
     /\ depth = s.depth
     /\ leaf = s.leaf
     /\ freeList = s.freeList
     /\ nodeCount = s.nodeCount
     /\ objectIndex = s.objectIndex
     /\ handleToId = s.handleToId
     /\ objectStore = s.objectStore
     /\ objectBounds = s.objectBounds
     /\ objectFlags = s.objectFlags
     /\ objectNode = s.objectNode
     /\ objectRefIndex = s.objectRefIndex
     /\ objectUpdateCounter = s.objectUpdateCounter
     /\ objectWindowCounter = s.objectWindowCounter
     /\ objectRefHandle = s.objectRefHandle
     /\ objectRefNext = s.objectRefNext
     /\ dynamicHandles = s.dynamicHandles
     /\ handleFreeList = s.handleFreeList
     /\ objectRefFreeList = s.objectRefFreeList
     /\ objectRefUsed = s.objectRefUsed
     /\ usedHandles = s.usedHandles
     /\ objectCapacity = s.objectCapacity
     /\ objectRefCapacity = s.objectRefCapacity
     /\ options = s.options
     /\ last = [op |-> "new", id |-> NoId, handle |-> None, ref |-> None,
                status |-> "constructed"]
     /\ removed = << >>
     /\ given = boxes
     /\ ops = 0
     /\ applied = [ id \in DOMAIN s.objectIndex |-> 0 ]
     /\ chunks = << >>
     /\ objectToChunks = << >>
     /\ objects = << >>
     /\ watch = [op |-> "new", viewport |-> Absent, visible |-> Absent,
                 repeated |-> FALSE, rebuilt |-> {}, skipped |-> {}]
     /\ historyStack = << >>
     /\ cursor = -1
     /\ stored = [ id \in DOMAIN s.objectStore |->
                     [ deleted |-> FALSE, zIndex |-> 0, ref |-> id ] ]
     /\ trail = [ calls |-> << >>, pushes |-> 0, dropped |-> {} ]
     /\ transformState = [ scale |-> 100, lodLevel |-> 1 ]
     /\ renderer = [ init |-> "pending", destroy |-> "none", app |-> TRUE,
                     resizeHandler |-> FALSE, listening |-> FALSE,
                     ticking |-> FALSE, chunkManager |-> FALSE,
                     late |-> FALSE ]

\* A store just constructed with the default pool, and one with a pool that
\* holds the root only.
Init == InitFrom(Constructed(nodePoolSize, ScaledOptions), << >>)
InitSmallPool == InitFrom(Constructed(smallNodePoolSize, ScaledOptions), << >>)

\* A store whose pool of fullNodePoolSize nodes has just been used up by two
\* splits: constructed, then insert(1, far), insert(2, north-west) and
\* insert(3, a box in another quadrant of the north-west child).
FilledBoxes ==
  << <<1024, 1024, 64, 64>>, <<0, 0, 64, 64>>, <<320, 320, 64, 64>> >>
Filled ==
  insert(insert(insert(Constructed(fullNodePoolSize, ScaledOptions),
                       1, FilledBoxes[1], {}),
                2, FilledBoxes[2], {}),
         3, FilledBoxes[3], {})
InitFullPool == InitFrom(Filled, FilledBoxes)

\* Ids the callers have used so far.  Ids are opaque, so a caller's next new
\* id is taken to be the smallest unused one.
UsedIds ==
  (DOMAIN objectIndex) \cup (DOMAIN removed) \cup (DOMAIN objectStore)
    \cup { handleToId[h] : h \in DOMAIN handleToId }

CallerId(id) ==
  id \in UsedIds \/ \A other \in Ids \ UsedIds : id <= other

HandleOf(id) == IF id \in DOMAIN objectIndex THEN objectIndex[id].handle ELSE None

\* The bookkeeping of one call that passed `id` (and `bbox`, or Absent).
\* Runs are cut after MaxOps calls, and after MaxOpsFullPool calls when they
\* start from the filled pool.
OpsLeft ==
  ops < (IF capacity = fullNodePoolSize THEN MaxOpsFullPool ELSE MaxOps)

Step(s, op, id, bbox, status) ==
  /\ Commit(s)
  /\ last' = [op |-> op, id |-> id, handle |-> HandleOf(id),
              ref |-> Get(objectRefIndex, HandleOf(id), None), status |-> status]
  /\ removed' =
       IF op = "remove" /\ id \in DOMAIN objectIndex
         THEN MapSet(removed, id, [box |-> readBoundingBox(Store, HandleOf(id)),
                                   handle |-> HandleOf(id)])
         ELSE IF id \in DOMAIN s.objectIndex THEN MapDelete(removed, id)
         ELSE removed
  /\ given' = IF bbox # Absent /\ (op # "updateBoundingBox" \/ id \in DOMAIN objectIndex)
                THEN MapSet(given, id, bbox) ELSE given
  /\ ops' = ops + 1
  /\ applied' =
       [ i \in DOMAIN s.objectIndex |->
           IF i \notin DOMAIN objectIndex THEN 0
           ELSE IF i = id /\ status \in {"updated", "moved"} THEN applied[i] + 1
           ELSE applied[i] ]
  /\ UNCHANGED << chunkVars, boardVars, viewVars >>

Insert(id, bbox) ==
  /\ OpsLeft
  /\ CallerId(id)
  /\ LET s == insert(Store, id, bbox, {})
     IN Step(s, "insert", id, bbox, IF s.thrown THEN "thrown" ELSE "inserted")

Add(id, bbox) ==
  /\ OpsLeft
  /\ CallerId(id)
  /\ LET r == add(Store, id, bbox)
     IN Step(r.s, "add", id, bbox, r.status)

\* bulkLoad is what createStore calls on the store it has just constructed.
BulkLoad(id, bbox) ==
  /\ ops = 0
  /\ CallerId(id)
  /\ LET s == bulkLoad(Store, id, bbox)
     IN Step(s, "bulkLoad", id, bbox, IF s.thrown THEN "thrown" ELSE "inserted")

UpdateBoundingBox(id, bbox) ==
  /\ OpsLeft
  /\ id \in UsedIds
  /\ LET r == updateBoundingBox(Store, id, bbox)
     IN Step(r.s, "updateBoundingBox", id, bbox, r.status)

Remove(id) ==
  /\ OpsLeft
  /\ id \in UsedIds
  /\ Step(remove(Store, id), "remove", id, Absent,
          IF id \in DOMAIN objectIndex THEN "removed" ELSE "absent")

FindInBounds(q) ==
  /\ OpsLeft
  /\ Step(findInBounds(Store, q).s, "findInBounds", NoId, Absent,
          IF Len(findInBounds(Store, q).s.objectRefFreeList) > Len(objectRefFreeList)
            THEN "purged" ELSE "found")

Next ==
  \/ \E id \in Ids, bbox \in Boxes : Insert(id, bbox)
  \/ \E id \in Ids, bbox \in Boxes : Add(id, bbox)
  \/ \E id \in Ids, bbox \in Boxes : BulkLoad(id, bbox)
  \/ \E id \in Ids, bbox \in Boxes : UpdateBoundingBox(id, bbox)
  \/ \E id \in Ids : Remove(id)
  \/ \E q \in Queries : FindInBounds(q)

Spec == Init /\ [][Next]_vars
SpecSmallPool == InitSmallPool /\ [][Next]_vars
SpecFullPool == InitFullPool /\ [][Next]_vars

\* A store constructed with the options under which objects turn Dynamic
\* within a few updates.
InitChurn == InitFrom(Constructed(nodePoolSize, ChurnOptions), << >>)
SpecChurn == InitChurn /\ [][Next]_vars

\* The store as EventHandler constructs it (default options), called with
\* the boxes and the rectangle of the three-object scenario.
ScenarioBoxes ==
  << <<0, 0, 10, 10>>, <<1000, 1000, 10, 10>>, <<2000, 0, 10, 10>> >>
ScenarioQuery == <<0, 0, 20, 20>>
ScenarioQueries == {ScenarioQuery} \cup { ScenarioBoxes[i] : i \in DOMAIN ScenarioBoxes }

InitDefaults == InitFrom(Constructed(nodePoolSize, DEFAULT_OPTIONS), << >>)

NextDefaults ==
  \/ \E id \in Ids, i \in DOMAIN ScenarioBoxes : Insert(id, ScenarioBoxes[i])
  \/ \E id \in Ids, i \in DOMAIN ScenarioBoxes : Add(id, ScenarioBoxes[i])
  \/ \E id \in Ids, i \in DOMAIN ScenarioBoxes : BulkLoad(id, ScenarioBoxes[i])
  \/ \E id \in Ids, i \in DOMAIN ScenarioBoxes : UpdateBoundingBox(id, ScenarioBoxes[i])
  \/ \E id \in Ids : Remove(id)
  \/ \E q \in ScenarioQueries : FindInBounds(q)

SpecDefaults == InitDefaults /\ [][NextDefaults]_vars

(* ------------------------------------------------- reading a store state *)
Range(f) == { f[x] : x \in DOMAIN f }

\* The nodes of the tree: those reachable from the root through child slots.
RECURSIVE Reach(_, _)
Reach(s, frontier) ==
  LET next == frontier \cup
                ({ getChild(s, n, i) : n \in frontier, i \in 0..(CHILDREN_PER_NODE - 1) }
                   \ {None})
  IN IF next = frontier THEN frontier ELSE Reach(s, next)

TreeNodes == Reach(Store, {rootNodeId})

\* The handles carried by the references of a node's list, in list order.
NodeHandles(n) == listHandles(Store, getFirstObject(Store, n), objectRefUsed + 1)

\* The tree nodes whose list holds a reference carrying handle h.
NodesHolding(h) == { n \in TreeNodes : h \in Range(NodeHandles(n)) }

LiveIds == DOMAIN objectIndex

\* The box lies fully within the rectangle.
Within(box, q) ==
  /\ box[1] >= q[1]
  /\ box[2] >= q[2]
  /\ box[1] + box[3] <= q[1] + q[3]
  /\ box[2] + box[4] <= q[2] + q[4]

\* The handles one findInBounds call writes for rectangle q in this state.
Found(q) == Range(findInBounds(Store, q).out)

(* ------------------------------------------------------------- the claims *)

\* C1: containment (no false negatives): for every live object and every
\* query rectangle, if the object's stored box lies fully within the
\* rectangle, findInBounds returns the object's handle.
C1_Containment ==
  \A id \in LiveIds, q \in Queries :
    Within(readBoundingBox(Store, objectIndex[id].handle), q)
      => objectIndex[id].handle \in Found(q)

\* C2: round trip, query part: for every object that was removed (and is not
\* indexed again), a findInBounds whose rectangle covers the object's old box
\* returns no handle that resolves (through handleToId) to the object's id.
C2_RoundTripQuery ==
  \A id \in DOMAIN removed, q \in Queries :
    Within(removed[id].box, q)
      => \A h \in Found(q) : Get(handleToId, h, NoId) # id

\* C3: round trip, lookup part: for every object that was put into the store
\* and then removed with remove(id), get(id) returns absent.
C3_RoundTripGet ==
  \A id \in DOMAIN removed : get(Store, id) = Absent

\* C4: handle reuse safety: whenever a live object holds a handle (among
\* them every object B whose insert received the handle a removed object A
\* used to have), each query result carrying that handle resolves to that
\* object's id, which is no removed id, and the box the handle is tested
\* against is the box last passed for that object.
C4_HandleReuseSafety ==
  \A q \in Queries : \A h \in Found(q) : \A b \in LiveIds :
    objectIndex[b].handle = h
      => /\ Get(handleToId, h, NoId) = b
         /\ Get(handleToId, h, NoId) \notin DOMAIN removed
         /\ readBoundingBox(Store, h) = given[b]

\* C4 witness: object A was removed, a later insert of another object B got
\* A's handle, B's box differs from A's old box, and a query returns the handle.
C4_Witness ==
  \E a \in DOMAIN removed, b \in LiveIds, q \in Queries :
    /\ a # b
    /\ objectIndex[b].handle = removed[a].handle
    /\ given[b] # removed[a].box
    /\ Within(removed[a].box, q)
    /\ removed[a].handle \in Found(q)

\* C5: handle uniqueness: at most one handle maps to a given object id, no
\* two live ids share a handle, and no handle is both on the handle free
\* list and assigned to a live id.
C5_HandleUniqueness ==
  /\ \A h1, h2 \in DOMAIN handleToId :
       (h1 # h2 /\ handleToId[h1] # NoId) => handleToId[h1] # handleToId[h2]
  /\ \A id1, id2 \in LiveIds :
       id1 # id2 => objectIndex[id1].handle # objectIndex[id2].handle
  /\ \A id \in LiveIds : objectIndex[id].handle \notin Range(handleFreeList)

\* C6: immediately after remove(id) returns, no node's reference list holds
\* a reference carrying the removed object's handle, and the reference slot
\* the object had is on the reference free list.
C6_RemoveDetaches ==
  (last.op = "remove" /\ last.status = "removed")
    => /\ NodesHolding(last.handle) = {}
       /\ last.ref \in Range(objectRefFreeList)

\* C7: object-record consistency: for every live object, record.nodeId is
\* the node whose reference list holds the object's reference, and equals
\* objectNode[handle].
C7_RecordConsistency ==
  \A id \in LiveIds :
    /\ objectIndex[id].nodeId = Get(objectNode, objectIndex[id].handle, None)
    /\ NodesHolding(objectIndex[id].handle) = { objectIndex[id].nodeId }

\* C8: after updateBoundingBox returns 'updated' or 'moved', the object's
\* stored box lies within the loose bounds of the node whose reference list
\* holds the object.
C8_UpdateKeepsLooseFit ==
  (last.op = "updateBoundingBox" /\ last.status \in {"updated", "moved"})
    => /\ NodesHolding(last.handle) # {}
       /\ \A n \in NodesHolding(last.handle) :
            fitsNode(Store, n, readBoundingBox(Store, last.handle))

\* C9: a node of the tree is flagged leaf if and only if all four of its
\* child slots are empty, also after an allocation failure during a split.
C9_LeafIffNoChildren ==
  \A n \in TreeNodes :
    isLeaf(Store, n) <=> (Get(children, n, NoChildren) = NoChildren)

\* C10: a leaf whose depth is below maxDepth holds at most maxObjectsPerNode
\* references.
C10_LeafCapacity ==
  \A n \in TreeNodes :
    (isLeaf(Store, n) /\ Get(depth, n, 0) < maxDepth)
      => /\ Len(NodeHandles(n)) <= options.maxObjectsPerNode
         /\ getObjectCount(Store, n) <= options.maxObjectsPerNode

\* The nodes one findInBounds call for rectangle q walks in store s: the
\* root if q meets its loose bounds, and every child of a walked node that
\* q meets.
RECURSIVE walkedFrom(_, _, _, _)
walkedFrom(s, q, nodeId, fuel) ==
  IF fuel = 0 \/ ~nodeIntersects(s, nodeId, q) THEN {}
  ELSE {nodeId} \cup
       UNION { walkedFrom(s, q, c, fuel - 1) : c \in Range(childrenOf(s, nodeId, 0)) }

Walked(s, q) == walkedFrom(s, q, rootNodeId, maxDepth + 7)

\* A handle that is tombstoned or free in store s.
Tombstoned(s, h) ==
  \/ Get(s.handleToId, h, NoId) = NoId
  \/ Deleted \in Get(s.objectFlags, h, {})
  \/ h \in Range(s.handleFreeList)

\* What C11 asks of one call: r is what findInBounds returned for q.
PurgedNeverReturned(r, q) ==
  /\ \A h \in Range(r.out) :
       /\ ~Tombstoned(Store, h)
       /\ Get(objectNode, h, None) \in NodesHolding(h)
  /\ \A n \in Walked(r.s, q) :
       \A h \in Range(listHandles(r.s, getFirstObject(r.s, n), objectRefUsed + 1)) :
         /\ ~Tombstoned(r.s, h)
         /\ Get(r.s.objectNode, h, None) = n

\* C11: findInBounds writes no handle that is tombstoned or free, or that is
\* not assigned to a node whose list holds it; and when the call returns, no
\* node it walked still lists a reference to a tombstoned or free handle or
\* to a handle assigned to another node.
C11_PurgedNeverReturned ==
  \A q \in Queries : PurgedNeverReturned(findInBounds(Store, q), q)

\* C11 witness: a query has just purged a reference it met, and the same
\* query still returns a handle.
C11_Witness ==
  /\ last.op = "findInBounds"
  /\ last.status = "purged"
  /\ \E q \in Queries : Found(q) # {}

\* C12: arena exhaustion never makes an insertion fail: after insert, add or
\* bulkLoad the call has completed, the id is indexed with exactly one
\* handle, and the handle arena, the reference arena and the node pool are
\* large enough for what they hold.
C12_ExhaustionGrows ==
  last.op \in {"insert", "add", "bulkLoad"}
    => /\ last.status # "thrown"
       /\ last.id \in DOMAIN objectIndex
       /\ Cardinality({ h \in DOMAIN handleToId : handleToId[h] = last.id }) = 1
       /\ usedHandles <= objectCapacity
       /\ objectRefUsed <= objectRefCapacity
       /\ nodeCount <= capacity

\* The three objects of the scenario are in the store with their boxes.
ScenarioLoaded ==
  /\ LiveIds = DOMAIN ScenarioBoxes
  /\ \A i \in DOMAIN ScenarioBoxes :
       readBoundingBox(Store, objectIndex[i].handle) = ScenarioBoxes[i]

\* C19: every handle findInBounds returns has a stored box that intersects
\* the rectangle; and with the three objects of the scenario in the store,
\* the rectangle {0, 0, 20, 20} returns exactly one handle, the first
\* object's.
C19_ScenarioQuery ==
  /\ \A q \in ScenarioQueries : \A h \in Found(q) :
       bboxIntersects(readBoundingBox(Store, h), q)
  /\ ScenarioLoaded
       => findInBounds(Store, ScenarioQuery).out = << objectIndex[1].handle >>

\* C19 witness: the three objects have just been inserted.
C19_Witness ==
  /\ ScenarioLoaded
  /\ last.op = "insert"
  /\ ops = Len(ScenarioBoxes)

(* ------------------------------------------------------------ ChunkManager *)
\* The chunk cache of the renderer (src/unnamed/part_005).  A coordinate of
\* this part of the model is a whole number of 1/Subunits of a world unit,
\* so that boxes with fractional edges (a path's box is padded by half its
\* thickness) are among the inputs.
Subunits == 2
\* Longest run of ChunkManager calls explored.
MaxChunkOps == 4

CHUNK_SIZE == 1024
chunkSpan == CHUNK_SIZE * Subunits

\* LODLevel
Near == 0
Mid == 1
Far == 2
Overview == 3

\* A box {x, y, width, height} given in world units.
World(b) == << b[1] * Subunits, b[2] * Subunits, b[3] * Subunits, b[4] * Subunits >>

\* Chunk's constructor: a new chunk is dirty and has drawn nothing.  `live`
\* and `renderContainer` hold what the last rebuild drew.  The fields of the
\* last line only observe the chunk: the segment geometry at its last two
\* rebuilds; its last two updates; the LOD changes that marked it dirty since
\* its membership last changed; whether its last update crossed the boundary
\* between Near and the coarser bands; and the number of updates since its
\* membership last changed that crossed the boundary and rebuilt it.
newChunk(key) ==
  [ key |-> key, segments |-> << >>, isDirty |-> TRUE, previousLod |-> None,
    updatedLodContent |-> FALSE, live |-> {}, renderContainer |-> {},
    liveVisible |-> TRUE, spriteVisible |-> TRUE,
    builds |-> << >>, updates |-> << >>, marks |-> << >>,
    crossed |-> FALSE, forced |-> 0 ]

\* The world position of a chunk's sprite and live container.
chunkX(key) == key[1] * chunkSpan
chunkY(key) == key[2] * chunkSpan

\* Chunk.addSegment; the segment key `${objectId}:${chunkKey}` of a chunk's
\* own segments is determined by the object id.
addSegment(c, segment) ==
  IF segment.objectId \notin DOMAIN c.segments
    THEN [c EXCEPT !.segments = MapSet(@, segment.objectId, segment),
                   !.isDirty = TRUE, !.updatedLodContent = TRUE,
                   !.marks = << >>, !.forced = 0]
    ELSE c

\* Chunk.removeSegmentsByObjectId
removeSegmentsByObjectId(c, objectId) ==
  IF objectId \in DOMAIN c.segments
    THEN [c EXCEPT !.segments = MapDelete(@, objectId),
                   !.isDirty = TRUE, !.updatedLodContent = TRUE,
                   !.marks = << >>, !.forced = 0]
    ELSE c

\* getObject as updateVisibleChunks passes it: this.objects.get(id) || null.
Known(objs, id) == id \in DOMAIN objs

\* drawObjectToPixi returns null for an object it cannot draw.
Drawable(objs, id) == Known(objs, id) /\ objs[id].renderable

\* The geometry of a chunk's segments: membership and clip rectangles.
Geometry(c) ==
  [ id \in DOMAIN c.segments |->
      [ localX |-> c.segments[id].localX, localY |-> c.segments[id].localY,
        clipRect |-> c.segments[id].clipRect ] ]

LastTwo(seq) == IF Len(seq) > 2 THEN Tail(seq) ELSE seq

\* Chunk.rebuildLive: the objects are drawn whole, at their own position.
rebuildLive(c, objs) ==
  [c EXCEPT
     !.live = { [ objectId |-> id, x |-> objs[id].bbox[1] - chunkX(c.key),
                  y |-> objs[id].bbox[2] - chunkY(c.key) ] :
                id \in { i \in DOMAIN c.segments : Drawable(objs, i) } },
     !.builds = LastTwo(Append(@, Geometry(c)))]

\* Chunk.rebuildRenderTexture with drawSegmentToPixi: every segment is drawn
\* at its local position, masked by its clip rectangle, at its own LOD.
rebuildRenderTexture(c, objs) ==
  [c EXCEPT
     !.renderContainer =
        { [ objectId |-> id, x |-> c.segments[id].localX,
            y |-> c.segments[id].localY, clipRect |-> c.segments[id].clipRect,
            lod |-> c.segments[id].lod ] :
          id \in { i \in DOMAIN c.segments : Drawable(objs, i) } },
     !.builds = LastTwo(Append(@, Geometry(c)))]

\* The test of Chunk.update for a LOD change that marks the chunk dirty.
lodChangeMarks(previousLod, lod, updatedLodContent) ==
  /\ previousLod # None
  /\ previousLod # lod
  /\ (lod = Near \/ previousLod = Near)
  /\ updatedLodContent

\* The LOD band changes across the boundary between Near and the coarser
\* bands.
crossesNear(previousLod, lod) ==
  /\ previousLod # None
  /\ previousLod # lod
  /\ (lod = Near \/ previousLod = Near)

\* Chunk.update, first part: the LOD change.
markLod(c, lod) ==
  IF lodChangeMarks(c.previousLod, lod, c.updatedLodContent)
    THEN [c EXCEPT !.isDirty = TRUE, !.updatedLodContent = FALSE,
                   !.previousLod = lod,
                   !.marks = Append(@, << c.previousLod, lod >>),
                   !.crossed = TRUE]
    ELSE [c EXCEPT !.previousLod = lod,
                   !.crossed = crossesNear(c.previousLod, lod)]

\* Chunk.computeLOD: pxDiag = sqrt(width^2 + height^2) * scale, compared by
\* squares.
pxDiagAtLeast(bbox, scale, px) ==
  (bbox[3] * bbox[3] + bbox[4] * bbox[4]) * scale * scale
    >= (px * Subunits) * (px * Subunits)

\* A faulty variant of computeLOD: the segment takes the viewport's band.
computeLOD_ByBand(bbox, viewport) == viewport.lodLevel

computeLOD(bbox, viewport) ==
  IF pxDiagAtLeast(bbox, viewport.scale, 130) THEN Near
  ELSE IF pxDiagAtLeast(bbox, viewport.scale, 60) THEN Mid
  ELSE IF pxDiagAtLeast(bbox, viewport.scale, 30) THEN Far
  ELSE Overview

\* Chunk.update, second part: the LOD of every segment whose object is known.
updateSegmentLods(c, viewport, objs) ==
  [c EXCEPT !.segments =
     [ id \in DOMAIN @ |->
         IF Known(objs, id)
           THEN [ @[id] EXCEPT !.lod = computeLOD(objs[id].bbox, viewport) ]
           ELSE @[id] ] ]

\* Chunk.update, third part: the rebuild the band asks for.
rebuildForBand(c, lod, objs) ==
  IF lod = Near
    THEN IF c.isDirty \/ c.live = {}
           THEN [ rebuildLive(c, objs) EXCEPT
                    !.isDirty = FALSE, !.liveVisible = TRUE,
                    !.spriteVisible = FALSE,
                    !.updates = LastTwo(Append(@, [lod |-> lod, rebuilt |-> "live"])),
                    !.forced = IF c.crossed THEN @ + 1 ELSE @ ]
           ELSE [ c EXCEPT
                    !.liveVisible = TRUE, !.spriteVisible = FALSE,
                    !.updates = LastTwo(Append(@, [lod |-> lod, rebuilt |-> "none"])) ]
    ELSE IF c.isDirty
           THEN [ rebuildRenderTexture(c, objs) EXCEPT
                    !.isDirty = FALSE, !.liveVisible = FALSE,
                    !.spriteVisible = TRUE,
                    !.updates = LastTwo(Append(@, [lod |-> lod, rebuilt |-> "texture"])),
                    !.forced = IF c.crossed THEN @ + 1 ELSE @ ]
           ELSE [ c EXCEPT
                    !.liveVisible = FALSE, !.spriteVisible = TRUE,
                    !.updates = LastTwo(Append(@, [lod |-> lod, rebuilt |-> "none"])) ]

\* Chunk.update
update(c, viewport, objs) ==
  rebuildForBand(updateSegmentLods(markLod(c, viewport.lodLevel), viewport, objs),
                 viewport.lodLevel, objs)

\* A faulty variant of getChunksForBbox: the chunk index is rounded to the
\* nearest whole number instead of down.
getChunksForBbox_Rounded(bbox) ==
  { << cx, cy >> :
      cx \in ((2 * bbox[1] + chunkSpan) \div (2 * chunkSpan))
               .. ((2 * (bbox[1] + bbox[3] - Subunits) + chunkSpan) \div (2 * chunkSpan)),
      cy \in ((2 * bbox[2] + chunkSpan) \div (2 * chunkSpan))
               .. ((2 * (bbox[2] + bbox[4] - Subunits) + chunkSpan) \div (2 * chunkSpan)) }

\* ChunkManager.getChunksForBbox: Math.floor(v / CHUNK_SIZE) is \div, which
\* rounds down; the keys are returned as a set.
getChunksForBbox(bbox) ==
  { << cx, cy >> :
      cx \in (bbox[1] \div chunkSpan) .. ((bbox[1] + bbox[3] - Subunits) \div chunkSpan),
      cy \in (bbox[2] \div chunkSpan) .. ((bbox[2] + bbox[4] - Subunits) \div chunkSpan) }

\* The intersection of a box with a chunk, as computeSegmentsForObject
\* computes it: ix, iy, ax, ay.
ixOf(bbox, key) == Max(bbox[1], chunkX(key))
iyOf(bbox, key) == Max(bbox[2], chunkY(key))
axOf(bbox, key) == Min(bbox[1] + bbox[3], chunkX(key) + chunkSpan)
ayOf(bbox, key) == Min(bbox[2] + bbox[4], chunkY(key) + chunkSpan)

segmentFor(id, bbox, key) ==
  [ objectId |-> id, chunkKey |-> key,
    localX |-> ixOf(bbox, key) - chunkX(key),
    localY |-> iyOf(bbox, key) - chunkY(key),
    clipRect |-> << ixOf(bbox, key) - bbox[1], iyOf(bbox, key) - bbox[2],
                    axOf(bbox, key) - ixOf(bbox, key),
                    ayOf(bbox, key) - iyOf(bbox, key) >>,
    zIndex |-> 0, lod |-> Near ]

\* ChunkManager.computeSegmentsForObject
computeSegmentsForObject(id, bbox) ==
  IF bbox = Absent THEN {}
  ELSE { segmentFor(id, bbox, key) :
           key \in { k \in getChunksForBbox(bbox) :
                       /\ axOf(bbox, k) > ixOf(bbox, k)
                       /\ ayOf(bbox, k) > iyOf(bbox, k) } }

\* The manager as one record, for the operators below.
Manager == [ chunks |-> chunks, objectToChunks |-> objectToChunks, objects |-> objects ]

\* A faulty variant of removeOldSegments: a chunk that held nothing but the
\* object's segment is dropped with it.
removeOldSegments_Dropping(m, id) ==
  [m EXCEPT !.chunks =
     [ k \in { j \in DOMAIN @ :
                 ~ (/\ id \in DOMAIN m.objectToChunks
                    /\ j \in m.objectToChunks[id]
                    /\ DOMAIN @[j].segments = {id}) } |->
         IF id \in DOMAIN m.objectToChunks /\ k \in m.objectToChunks[id]
           THEN removeSegmentsByObjectId(@[k], id)
           ELSE @[k] ] ]

\* addObjects, for one object: its old segments are removed from the chunks
\* recorded for it ...
removeOldSegments(m, id) ==
  [m EXCEPT !.chunks =
     [ k \in DOMAIN @ |->
         IF id \in DOMAIN m.objectToChunks /\ k \in m.objectToChunks[id]
           THEN removeSegmentsByObjectId(@[k], id)
           ELSE @[k] ] ]

\* ... and the segments computed for it are added, in chunks that are created
\* when they are missing.
installSegments(m, id, segments) ==
  [m EXCEPT
     !.chunks =
        [ k \in (DOMAIN @) \cup { s.chunkKey : s \in segments } |->
            IF \E s \in segments : s.chunkKey = k
              THEN addSegment(Get(@, k, newChunk(k)),
                              CHOOSE s \in segments : s.chunkKey = k)
              ELSE @[k] ],
     !.objectToChunks = MapSet(@, id, { s.chunkKey : s \in segments })]

\* A faulty variant of addObject: the object is recorded before its box is
\* looked at.
addObject_RecordedFirst(m, obj) ==
  [m EXCEPT !.objects = MapSet(@, obj.id, [bbox |-> obj.bbox,
                                           renderable |-> obj.renderable])]

addObject(m, obj) ==
  IF obj.bbox = Absent THEN m
  ELSE installSegments(
         removeOldSegments(
           [m EXCEPT !.objects = MapSet(@, obj.id, [bbox |-> obj.bbox,
                                                    renderable |-> obj.renderable])],
           obj.id),
         obj.id, computeSegmentsForObject(obj.id, obj.bbox))

\* ChunkManager.addObjects
RECURSIVE addObjects(_, _)
addObjects(m, objs) ==
  IF objs = << >> THEN m
  ELSE addObjects(addObject(m, Head(objs)), Tail(objs))

\* PIXI.Rectangle.intersects: the rectangles share a region of positive area.
intersects(a, b) ==
  /\ Min(a[1] + a[3], b[1] + b[3]) > Max(a[1], b[1])
  /\ Min(a[2] + a[4], b[2] + b[4]) > Max(a[2], b[2])

chunkRect(key) == << chunkX(key), chunkY(key), chunkSpan, chunkSpan >>

\* ChunkManager.updateVisibleChunks
updateVisibleChunks(m, viewport, visible) ==
  [m EXCEPT !.chunks =
     [ k \in DOMAIN @ |->
         IF intersects(visible, chunkRect(k))
           THEN update(@[k], viewport, m.objects)
           ELSE @[k] ] ]

\* ChunkManager.getChunksSize
getChunksSize == Cardinality(DOMAIN chunks)

\* ChunkManager.clear
clear(m) == [ chunks |-> << >>, objectToChunks |-> << >>, objects |-> << >> ]

(* ------------------------------------------------- the ChunkManager's calls *)
\* The boxes the renderer is given: the three of the scenario, the place an
\* object is moved to, a box over the corner of four chunks, and the box of
\* a dot of thickness 3 at x = 1023, which reaches half a unit into the next
\* column of chunks.
MovedBox == World(<<5000, 5000, 10, 10>>)
CornerBox == World(<<1020, 1020, 10, 10>>)
DotBox == << 1021 * Subunits + 1, 0, 3 * Subunits, 3 * Subunits >>
ChunkBoxes ==
  { World(ScenarioBoxes[i]) : i \in DOMAIN ScenarioBoxes }
    \cup { MovedBox, CornerBox, DotBox }

\* The scenario's three objects, declared in one call.
ScenarioObjects ==
  [ i \in DOMAIN ScenarioBoxes |->
      [ id |-> i, bbox |-> World(ScenarioBoxes[i]), renderable |-> TRUE ] ]

\* What addObjects is called with: one object, with a box or without, that
\* can be drawn, or one that cannot; the three objects of the scenario; or an
\* object without a box followed by one with a box.
ObjectLists ==
  { << [ id |-> id, bbox |-> b, renderable |-> TRUE ] >> :
      id \in Ids, b \in ChunkBoxes \cup {Absent} }
    \cup { << [ id |-> id, bbox |-> World(ScenarioBoxes[1]), renderable |-> FALSE ] >> :
             id \in Ids }
    \cup { ScenarioObjects }
    \cup { << [ id |-> 1, bbox |-> Absent, renderable |-> TRUE ],
               [ id |-> 2, bbox |-> b, renderable |-> TRUE ] >> :
             b \in { World(ScenarioBoxes[1]), MovedBox } }

\* The viewports: one per LOD band, with a scale that puts a 10 x 10 object
\* in that band.
Viewports ==
  { [ lodLevel |-> Near, scale |-> 16 ], [ lodLevel |-> Mid, scale |-> 8 ],
    [ lodLevel |-> Far, scale |-> 4 ], [ lodLevel |-> Overview, scale |-> 1 ] }

\* The visible rectangles: the first chunk, and the whole board.
VisibleRects == { World(<<0, 0, 1024, 1024>>), World(<<0, 0, 8192, 8192>>) }

NoViewport == [ lodLevel |-> None, scale |-> 0 ]

\* A caller's next new id is the smallest unused one.
NextIds(objs) ==
  \/ Len(objs) > 1
  \/ objs[1].id \in DOMAIN objects
  \/ \A other \in Ids \ DOMAIN objects : objs[1].id <= other

ChunkStep(m, op, viewport, visible, rebuilt, objs) ==
  /\ chunks' = m.chunks
  /\ objectToChunks' = m.objectToChunks
  /\ objects' = m.objects
  /\ watch' = [ op |-> op, viewport |-> viewport, visible |-> visible,
                repeated |-> /\ op = "updateVisibleChunks"
                             /\ watch.op = op
                             /\ watch.viewport = viewport
                             /\ watch.visible = visible,
                rebuilt |-> rebuilt,
                skipped |-> { objs[i].id : i \in { j \in DOMAIN objs : objs[j].bbox = Absent } } ]
  /\ ops' = ops + 1
  /\ UNCHANGED << storeVars, last, removed, given, applied, boardVars, viewVars >>

\* The calls, in runs of at most n calls.
AddObjectsWithin(n, objs) ==
  /\ ops < n
  /\ NextIds(objs)
  /\ ChunkStep(addObjects(Manager, objs), "addObjects", NoViewport, ZeroBox, {}, objs)

AddObjects(objs) == AddObjectsWithin(MaxChunkOps, objs)

\* The chunks a call to updateVisibleChunks has rebuilt.
Rebuilt(m, visible) ==
  { k \in DOMAIN m.chunks :
      /\ intersects(visible, chunkRect(k))
      /\ Last(m.chunks[k].updates).rebuilt # "none" }

UpdateVisibleChunksWithin(n, viewport, visible) ==
  /\ ops < n
  /\ ChunkStep(updateVisibleChunks(Manager, viewport, visible),
               "updateVisibleChunks", viewport, visible,
               Rebuilt(updateVisibleChunks(Manager, viewport, visible), visible),
               << >>)

UpdateVisibleChunks(viewport, visible) ==
  UpdateVisibleChunksWithin(MaxChunkOps, viewport, visible)

ClearWithin(n) ==
  /\ ops < n
  /\ ChunkStep(clear(Manager), "clear", NoViewport, ZeroBox, {}, << >>)

Clear == ClearWithin(MaxChunkOps)

NextChunks ==
  \/ \E objs \in ObjectLists : AddObjects(objs)
  \/ \E viewport \in Viewports, visible \in VisibleRects :
       UpdateVisibleChunks(viewport, visible)
  \/ Clear

SpecChunks == Init /\ [][NextChunks]_vars

\* Longer runs over fewer inputs, with every LOD band at every scale: two
\* objects in chunk (0,0), one 10 x 10 and one 6 x 8, whose diagonal of 10
\* meets the thresholds 30, 60 and 130 exactly at the scales 3, 6 and 13.
MaxLodOps == 5
LodBoxes == { World(ScenarioBoxes[1]), World(<<1000, 1000, 6, 8>>) }
LodLists ==
  { << [ id |-> id, bbox |-> b, renderable |-> TRUE ] >> :
      id \in 1..2, b \in LodBoxes }
LodViewports ==
  { [ lodLevel |-> lod, scale |-> scale ] :
      lod \in { Near, Mid, Far, Overview }, scale \in { 1, 3, 6, 13 } }
LodVisible == World(<<0, 0, 1024, 1024>>)

NextChunksLod ==
  \/ \E objs \in LodLists : AddObjectsWithin(MaxLodOps, objs)
  \/ \E viewport \in LodViewports :
       UpdateVisibleChunksWithin(MaxLodOps, viewport, LodVisible)
  \/ ClearWithin(MaxLodOps)

SpecChunksLod == Init /\ [][NextChunksLod]_vars

(* ------------------------------------------------ claims on the ChunkManager *)
\* The three objects of the scenario have just been declared, in one call,
\* to a ChunkManager that had been given nothing before.
ScenarioSynced ==
  /\ watch.op = "addObjects"
  /\ ops = 1
  /\ DOMAIN objects = DOMAIN ScenarioBoxes
  /\ \A i \in DOMAIN ScenarioBoxes : objects[i].bbox = World(ScenarioBoxes[i])

\* The objects with a segment in the chunk of key k.
SegmentsIn(k) == IF k \in DOMAIN chunks THEN DOMAIN chunks[k].segments ELSE {}

\* C18, as stated: declaring the three objects with boxes {0,0,10,10},
\* {1000,1000,10,10} and {2000,0,10,10} at chunk size 1024 yields three
\* chunks (getChunksSize() = 3), each holding exactly one segment.
C18_ThreeChunks ==
  ScenarioSynced
    => /\ getChunksSize = 3
       /\ \A k \in DOMAIN chunks : Cardinality(SegmentsIn(k)) = 1

\* C18, amended: declaring the three objects yields two chunks
\* (getChunksSize() = 2): chunk (0,0) holds one segment for each of the first
\* two objects, since 1000 + 10 <= 1024, and chunk (1,0) holds one segment,
\* for the third object.
C18_TwoChunks ==
  ScenarioSynced
    => /\ getChunksSize = 2
       /\ SegmentsIn(<<0, 0>>) = {1, 2}
       /\ SegmentsIn(<<1, 0>>) = {3}
       /\ \A i \in DOMAIN ScenarioBoxes :
            Cardinality(computeSegmentsForObject(i, World(ScenarioBoxes[i]))) = 1

\* C18 witness: the scenario has been declared and its chunks exist.
C18_Witness ==
  /\ ScenarioSynced
  /\ DOMAIN chunks = { <<0, 0>>, <<1, 0>> }

\* The chunks that hold a segment for the object `id`, and its segments.
Holding(id) == { k \in DOMAIN chunks : id \in DOMAIN chunks[k].segments }
SegmentsOf(id) == { chunks[k].segments[id] : k \in Holding(id) }

\* The chunks a box overlaps: those whose square shares a region of positive
\* area with it.
Overlapped(bbox) ==
  { k \in ((bbox[1] \div chunkSpan) .. ((bbox[1] + bbox[3]) \div chunkSpan))
            \X ((bbox[2] \div chunkSpan) .. ((bbox[2] + bbox[4]) \div chunkSpan)) :
      intersects(bbox, chunkRect(k)) }

\* C14: no stale segments: for every object the chunks that hold a segment
\* for it are exactly the chunks its current box overlaps, and
\* objectToChunks[id] is that set (a chunk's segments are keyed by object, so
\* a chunk holds at most one per object).
C14_NoStaleSegments ==
  \A id \in DOMAIN objects :
    /\ Holding(id) = Overlapped(objects[id].bbox)
    /\ id \in DOMAIN objectToChunks
    /\ objectToChunks[id] = Overlapped(objects[id].bbox)

\* A segment's clip rectangle mapped back to world space.
WorldClip(bbox, segment) ==
  << bbox[1] + segment.clipRect[1], bbox[2] + segment.clipRect[2],
     segment.clipRect[3], segment.clipRect[4] >>

Inside(a, b) ==
  /\ a[1] >= b[1]
  /\ a[2] >= b[2]
  /\ a[1] + a[3] <= b[1] + b[3]
  /\ a[2] + a[4] <= b[2] + b[4]

RECURSIVE ClipArea(_)
ClipArea(segments) ==
  IF segments = {} THEN 0
  ELSE LET s == CHOOSE x \in segments : TRUE
       IN s.clipRect[3] * s.clipRect[4] + ClipArea(segments \ {s})

\* C15: segment consistency: the clip rectangles of an object's segments,
\* mapped back to world space, do not overlap each other, each lies inside
\* the box and inside its chunk, and together they cover the box exactly
\* (their areas add up to the area of the box).
C15_SegmentConsistency ==
  \A id \in DOMAIN objects :
    /\ \A s \in SegmentsOf(id) :
         /\ Inside(WorldClip(objects[id].bbox, s), objects[id].bbox)
         /\ Inside(WorldClip(objects[id].bbox, s), chunkRect(s.chunkKey))
         /\ \A t \in SegmentsOf(id) \ {s} :
              ~intersects(WorldClip(objects[id].bbox, s),
                          WorldClip(objects[id].bbox, t))
    /\ ClipArea(SegmentsOf(id)) = objects[id].bbox[3] * objects[id].bbox[4]

\* C13: idempotent rebuild: when updateVisibleChunks is called twice in a
\* row with the same viewport and the same visible rectangle, with no
\* addObjects or clear in between, the second call rebuilds no chunk
\* (neither rebuildLive nor rebuildRenderTexture is run).
C13_IdempotentRebuild ==
  watch.repeated => watch.rebuilt = {}

\* C16: between two consecutive updates of a chunk at the same LOD band, the
\* chunk's cached content is rebuilt only if its set of segments (membership
\* or clip geometry) differs from the set at its previous rebuild; declaring
\* an object again with an unchanged box therefore causes no rebuild.
C16_RebuildOnlyOnChange ==
  \A k \in DOMAIN chunks :
    ( /\ Len(chunks[k].updates) = 2
      /\ chunks[k].updates[1].lod = chunks[k].updates[2].lod
      /\ chunks[k].updates[2].rebuilt # "none"
      /\ Len(chunks[k].builds) = 2 )
      => chunks[k].builds[1] # chunks[k].builds[2]

\* Since a segment was last added to the chunk or removed from it, at most
\* one LOD change has marked it dirty, and that change was to Near or from
\* Near, never between two of the coarser bands.
OneMarkPerChange(c) ==
  /\ Len(c.marks) <= 1
  /\ \A i \in DOMAIN c.marks :
       /\ c.marks[i][1] # c.marks[i][2]
       /\ Near \in { c.marks[i][1], c.marks[i][2] }

\* C17: a change of the LOD band across the near/non-near boundary forces a
\* rebuild of a chunk at most once per membership change: since a segment
\* was last added or removed, at most one update that crossed the boundary
\* has rebuilt the chunk, only the first crossing has marked it dirty, and
\* no change among the coarser bands has.
C17_OncePerChange ==
  \A k \in DOMAIN chunks :
    /\ OneMarkPerChange(chunks[k])
    /\ chunks[k].forced <= 1

(* --------------------------------------- further claims on the ObjectStore *)
\* C24: an object is flagged Dynamic only after more than
\* dynamicUpdateThreshold bounding-box updates have been applied to it
\* within one window of dynamicUpdateWindow updates, and its counters are
\* reset at the end of each window (they never reach the window's length).
C24_DynamicAfterThreshold ==
  \A id \in DOMAIN objectIndex :
    /\ Dynamic \in Get(objectFlags, objectIndex[id].handle, {})
         => applied[id] > options.dynamicUpdateThreshold
    /\ Get(objectWindowCounter, objectIndex[id].handle, 0) < options.dynamicUpdateWindow
    /\ Get(objectUpdateCounter, objectIndex[id].handle, 0) < options.dynamicUpdateWindow

\* C28: remove(id) for an id that is not indexed (never inserted, or removed
\* already) leaves every part of the index as it was.
C28_RemoveAbsentUnchanged ==
  \A id \in Ids \ DOMAIN objectIndex : remove(Store, id) = Store

\* C28 witness: an id that had been removed has just been removed again.
C28_Witness ==
  /\ last.op = "remove"
  /\ last.status = "absent"
  /\ last.id \in DOMAIN removed
  /\ objectIndex # << >>

(* -------------------------------------------- further claims on the chunks *)
\* The chunks the last call, an updateVisibleChunks, has updated.
JustUpdated ==
  IF watch.op = "updateVisibleChunks"
    THEN { k \in DOMAIN chunks : intersects(watch.visible, chunkRect(k)) }
    ELSE {}

\* The square of an object's on-screen diagonal sqrt(w^2 + h^2) * scale is
\* at least the square of px pixels.
DiagonalAtLeast(bbox, scale, px) ==
  (bbox[3] * bbox[3] + bbox[4] * bbox[4]) * (scale * scale)
    >= (px * px) * (Subunits * Subunits)

\* C23: on every update of a visible chunk each segment's detail level is
\* recomputed from its object's on-screen diagonal d: Near if d >= 130, Mid
\* if 60 <= d < 130, Far if 30 <= d < 60, Overview otherwise, whatever the
\* viewport's LOD band is.
C23_SegmentLod ==
  \A k \in JustUpdated : \A id \in DOMAIN chunks[k].segments :
    /\ chunks[k].segments[id].lod = Near
         <=> DiagonalAtLeast(objects[id].bbox, watch.viewport.scale, 130)
    /\ chunks[k].segments[id].lod = Mid
         <=> /\ DiagonalAtLeast(objects[id].bbox, watch.viewport.scale, 60)
             /\ ~DiagonalAtLeast(objects[id].bbox, watch.viewport.scale, 130)
    /\ chunks[k].segments[id].lod = Far
         <=> /\ DiagonalAtLeast(objects[id].bbox, watch.viewport.scale, 30)
             /\ ~DiagonalAtLeast(objects[id].bbox, watch.viewport.scale, 60)
    /\ chunks[k].segments[id].lod = Overview
         <=> ~DiagonalAtLeast(objects[id].bbox, watch.viewport.scale, 30)

\* C23 witness: a chunk has just been updated at the Near band, at a scale
\* at which the diagonal of one of its objects is exactly 60, and that
\* object's segment is Mid.
C23_Witness ==
  \E k \in JustUpdated : \E id \in DOMAIN chunks[k].segments :
    /\ watch.viewport.lodLevel = Near
    /\ watch.viewport.scale = 6
    /\ objects[id].bbox[3] = 6 * Subunits
    /\ objects[id].bbox[4] = 8 * Subunits
    /\ chunks[k].segments[id].lod = Mid

\* What a chunk would show if it were built from its current segments: the
\* drawable objects at their positions (live), and the drawable segments at
\* their local positions with their clip rectangles (cached raster).
FreshLive(c) ==
  { [ objectId |-> id, x |-> objects[id].bbox[1] - chunkX(c.key),
      y |-> objects[id].bbox[2] - chunkY(c.key) ] :
    id \in { i \in DOMAIN c.segments : Drawable(objects, i) } }

FreshRaster(c) ==
  { [ objectId |-> id, x |-> c.segments[id].localX, y |-> c.segments[id].localY,
      clipRect |-> c.segments[id].clipRect ] :
    id \in { i \in DOMAIN c.segments : Drawable(objects, i) } }

ShownRaster(c) ==
  { [ objectId |-> d.objectId, x |-> d.x, y |-> d.y, clipRect |-> d.clipRect ] :
    d \in c.renderContainer }

\* C29: displayed content is fresh: after a chunk has been updated at band
\* L, what it shows for L (the live container at Near, the cached raster at
\* the coarser bands) was built from its current segments.
C29_DisplayedFresh ==
  \A k \in JustUpdated :
    IF chunks[k].previousLod = Near
      THEN /\ chunks[k].liveVisible
           /\ chunks[k].live = FreshLive(chunks[k])
      ELSE /\ chunks[k].spriteVisible
           /\ ShownRaster(chunks[k]) = FreshRaster(chunks[k])

\* The objects of a call that have a box.
WithBox(objs) == SelectSeq(objs, LAMBDA o : o.bbox # Absent)

\* C21: addObjects skips an object that has no bounding box and changes no
\* cache state for it, and still processes the other objects of the call:
\* the call leaves the object table, the recorded chunk sets and every chunk
\* as the same call without the boxless objects leaves them (for a call with
\* nothing else: as they were).
C21_SkipsBoxless ==
  \A objs \in ObjectLists :
    /\ addObjects(Manager, objs) = addObjects(Manager, WithBox(objs))
    /\ WithBox(objs) = << >> => addObjects(Manager, objs) = Manager

\* C21 witness: the last call was given object 1 without a box and object 2
\* with one, object 1 being known with a segment in a chunk: object 1 is
\* still recorded there, and object 2 has been processed.
C21_Witness ==
  /\ watch.op = "addObjects"
  /\ watch.skipped = {1}
  /\ 1 \in DOMAIN objects
  /\ Holding(1) # {}
  /\ 2 \in DOMAIN objects
  /\ Holding(2) # Holding(1)


\* C22: chunks are destroyed by clear() only. Whatever addObjects or
\* updateVisibleChunks is called with, every chunk key is still there after
\* the call (getChunksSize() does not go down, also when an object moves away
\* and leaves a chunk empty), and after clear() the chunk map, the recorded
\* chunk sets and the object table are all empty.
C22_OnlyClearDestroys ==
  /\ \A objs \in ObjectLists :
       DOMAIN chunks \subseteq DOMAIN addObjects(Manager, objs).chunks
  /\ \A viewport \in Viewports : \A visible \in VisibleRects :
       DOMAIN chunks \subseteq DOMAIN updateVisibleChunks(Manager, viewport, visible).chunks
  /\ clear(Manager).chunks = << >>
  /\ clear(Manager).objectToChunks = << >>
  /\ clear(Manager).objects = << >>
  /\ watch.op = "clear" => chunks = << >> /\ objectToChunks = << >> /\ objects = << >>

\* C22 witness: an object has moved away and the chunk it left is still
\* there, empty, so that there are more chunks than chunks with segments.
C22_Witness ==
  /\ watch.op = "addObjects"
  /\ \E k \in DOMAIN chunks :
       /\ chunks[k].segments = << >>
       /\ \E id \in DOMAIN objects : Holding(id) # {} /\ k \notin Holding(id)
  /\ getChunksSize > Cardinality({ k \in DOMAIN chunks : chunks[k].segments # << >> })


(* ------------------------- FastDrawCore: the objects, History, the renderer *)
\* An object is [id, bbox, deleted, zIndex, ref]: zIndex 0 is an order not
\* set, and ref tells which object it is, two records with one ref being one
\* object that several places hold.
MAX_HISTORY_LENGTH == 30

\* The core's store and history and the renderer's ChunkManager as one
\* record, for the operators below.
Board ==
  [ s |-> Store, stored |-> stored, stack |-> historyStack, cursor |-> cursor,
    m |-> Manager ]

fieldsOf(obj) == [ deleted |-> obj.deleted, zIndex |-> obj.zIndex, ref |-> obj.ref ]

\* ObjectStore.get(id) for an id that objectStore holds.
objectOf(b, id) ==
  [ id |-> id, bbox |-> b.s.objectStore[id], deleted |-> b.stored[id].deleted,
    zIndex |-> b.stored[id].zIndex, ref |-> b.stored[id].ref ]

\* A command is an AddObjectCommand [type, obj] or an UpdateObjectCommand
\* [type, id, oldObj, newObj].  An object that is changed in place is seen
\* changed by every command that holds it.
sameObject(o, obj) == IF o.ref = obj.ref THEN obj ELSE o
touched(commands, obj) ==
  [ i \in DOMAIN commands |->
      IF commands[i].type = "add"
        THEN [ commands[i] EXCEPT !.obj = sameObject(@, obj) ]
        ELSE [ commands[i] EXCEPT !.oldObj = sameObject(@, obj),
                                  !.newObj = sameObject(@, obj) ] ]

\* The objects there are: those kept in objectStore and those the commands
\* hold.  A new object is none of them.
Refs(b) ==
  { b.stored[id].ref : id \in DOMAIN b.stored }
    \cup { b.stack[i].obj.ref : i \in { j \in DOMAIN b.stack : b.stack[j].type = "add" } }
    \cup { b.stack[i].oldObj.ref : i \in { j \in DOMAIN b.stack : b.stack[j].type = "update" } }
    \cup { b.stack[i].newObj.ref : i \in { j \in DOMAIN b.stack : b.stack[j].type = "update" } }
Greatest(S) == CHOOSE r \in S : \A x \in S : x <= r
NewRef(b) == 1 + Greatest(Refs(b) \cup {0})

\* ObjectStore.add(obj), with the order it gives an object that has none.
ordered(b, obj) ==
  IF obj.zIndex = 0 THEN [ obj EXCEPT !.zIndex = Cardinality(DOMAIN b.s.objectStore) ]
  ELSE obj
storeAdd(b, obj) ==
  [ b EXCEPT !.s = add(b.s, obj.id, obj.bbox).s,
             !.stored = MapSet(@, obj.id, fieldsOf(ordered(b, obj))),
             !.stack = touched(@, ordered(b, obj)) ]

\* ObjectStore.update(objectId, updated)
storeUpdate(b, id, updated) ==
  [ b EXCEPT !.s = updateBoundingBox(
                     [ b.s EXCEPT !.objectStore = MapSet(@, id, updated.bbox) ],
                     id, updated.bbox).s,
             !.stored = MapSet(@, id, fieldsOf(updated)) ]

\* ObjectStore.remove(objectId): objectStore keeps the object.
storeRemove(b, id) == [ b EXCEPT !.s = remove(b.s, id) ]

\* Command.do and Command.undo
commandDo(b, command) ==
  IF command.type = "add" THEN storeAdd(b, command.obj)
  ELSE storeUpdate(b, command.id, command.newObj)
commandUndo(b, command) ==
  IF command.type = "add" THEN storeRemove(b, command.obj.id)
  ELSE storeUpdate(b, command.id, command.oldObj)

\* History.canUndo, History.canRedo; stack[cursor] of the code is
\* stack[cursor + 1] here.
canUndo(b) == b.cursor >= 0
canRedo(b) == b.cursor < Len(b.stack) - 1

\* A faulty variant of pushed: the redo part is kept.
pushed_KeepRedo(b, command) ==
  [ b EXCEPT !.stack = Append(@, command), !.cursor = Len(b.stack) ]

\* History.push: the redo part is cut, the command is put on the stack and
\* done, and the oldest command is dropped when there are too many.  A throw
\* of the store ends any of these methods where it happens.
pushed(b, command) ==
  [ b EXCEPT !.stack = Append(SubSeq(@, 1, b.cursor + 1), command),
             !.cursor = b.cursor + 1 ]
\* A faulty variant of limited: the oldest command is never dropped.
limited_Unbounded(b) == b

limited(b) ==
  IF ~ b.s.thrown /\ Len(b.stack) > MAX_HISTORY_LENGTH
    THEN [ b EXCEPT !.stack = Tail(@), !.cursor = @ - 1 ]
    ELSE b
push(b, command) == limited(commandDo(pushed(b, command), command))

\* History.undo
stepBack(b) == IF b.s.thrown THEN b ELSE [ b EXCEPT !.cursor = @ - 1 ]
undo(b) ==
  IF b.cursor >= 0 THEN stepBack(commandUndo(b, b.stack[b.cursor + 1])) ELSE b

\* A faulty variant of redo: the cursor moves and the command is not done.
redo_CursorOnly(b) ==
  IF b.cursor < Len(b.stack) - 1 THEN [ b EXCEPT !.cursor = @ + 1 ] ELSE b

\* History.redo
redo(b) ==
  IF b.cursor < Len(b.stack) - 1
    THEN commandDo([ b EXCEPT !.cursor = @ + 1 ], b.stack[b.cursor + 2])
    ELSE b

\* History.clean
clean(b) == [ b EXCEPT !.stack = << >>, !.cursor = -1 ]

\* ObjectStore.getAll: the objects of the indexed ids that objectStore
\* holds.  The order, that of objectIndex, plays no part in what follows and
\* is taken to be that of the ids.
indexedIds(b) ==
  SelectSeq([ i \in 1..MaxIds |-> i ],
            LAMBDA id : id \in DOMAIN b.s.objectIndex /\ id \in DOMAIN b.s.objectStore)
getAll(b) == [ i \in DOMAIN indexedIds(b) |-> objectOf(b, indexedIds(b)[i]) ]

\* BoardRenderer.addObjectsForRender, the listener of objectsUpdate: the
\* objects go to ChunkManager.addObjects as they are.  emit calls the
\* listener before it returns.
forRender(objs) ==
  [ i \in DOMAIN objs |->
      [ id |-> objs[i].id, bbox |-> World(objs[i].bbox), renderable |-> TRUE ] ]
addObjectsForRender(b, objs) == [ b EXCEPT !.m = addObjects(@, forRender(objs)) ]
emitObjectsUpdate(b) == IF b.s.thrown THEN b ELSE addObjectsForRender(b, getAll(b))

\* FastDrawCore.save(obj): an update of the object objectStore holds under
\* the id, with a copy of that object as the old one, or an add.
saveCommand(b, obj) ==
  IF obj.id \in DOMAIN b.s.objectStore
    THEN [ type |-> "update", id |-> obj.id,
           oldObj |-> [ objectOf(b, obj.id) EXCEPT !.ref = obj.ref + 1 ],
           newObj |-> obj ]
    ELSE [ type |-> "add", obj |-> obj ]
save(b, obj) == emitObjectsUpdate(push(b, saveCommand(b, obj)))

\* FastDrawCore.removeObject(id): the object kept is marked deleted where it
\* is, and an update from a copy of what it was is pushed.
marked(b, id) == [ objectOf(b, id) EXCEPT !.deleted = TRUE ]
removeCommand(b, id) ==
  [ type |-> "update", id |-> id,
    oldObj |-> [ objectOf(b, id) EXCEPT !.ref = NewRef(b) ],
    newObj |-> marked(b, id) ]
removeObject(b, id) ==
  IF id \notin DOMAIN b.s.objectStore THEN b
  ELSE emitObjectsUpdate(
         push([ b EXCEPT !.stored = MapSet(@, id, fieldsOf(marked(b, id))),
                         !.stack = touched(@, marked(b, id)) ],
              removeCommand(b, id)))

\* FastDrawCore.undo and FastDrawCore.redo
coreUndo(b) == emitObjectsUpdate(undo(b))
coreRedo(b) == emitObjectsUpdate(redo(b))

\* FastDrawCore.loadData: a new store (initializeObjectStore: bulkLoad into
\* new ObjectStore()), a new history, and the notification.
RECURSIVE loadAll(_, _)
loadAll(s, objs) ==
  IF objs = << >> THEN s
  ELSE loadAll(bulkLoad(s, objs[1].id, objs[1].bbox), Tail(objs))
loadData(b, objs) ==
  emitObjectsUpdate(
    [ b EXCEPT !.s = loadAll(Constructed(nodePoolSize, DEFAULT_OPTIONS), objs),
               !.stored = [ id \in { objs[i].id : i \in DOMAIN objs } |->
                              fieldsOf(objs[CHOOSE i \in DOMAIN objs : objs[i].id = id]) ],
               !.stack = << >>, !.cursor = -1 ])

\* findObjectsIn(bounds): the objects of the handles findInBounds writes for
\* the rectangle with its width and height doubled.
paddedBounds(q) == << q[1], q[2], q[3] * 2, q[4] * 2 >>
resolved(b, handles) ==
  SelectSeq(handles,
            LAMBDA h : /\ h \in DOMAIN b.s.handleToId
                       /\ b.s.handleToId[h] # NoId
                       /\ b.s.handleToId[h] \in DOMAIN b.s.objectStore)
findObjectsIn(b, q) ==
  [ i \in DOMAIN resolved(b, findInBounds(b.s, paddedBounds(q)).out) |->
      objectOf(b, b.s.handleToId[resolved(b, findInBounds(b.s, paddedBounds(q)).out)[i]]) ]

\* isPointInObject for an image, whose rectangle is its box: the edges count.
isPointInRect(point, rect) ==
  /\ point[1] >= rect[1]
  /\ point[1] <= rect[1] + rect[3]
  /\ point[2] >= rect[2]
  /\ point[2] <= rect[2] + rect[4]
isPointInObject(point, object) == isPointInRect(point, object.bbox)

\* findHitObject(point, objects): the candidates are tried from the last to
\* the first; null is NoObject.
NoObject ==
  [ id |-> NoId, bbox |-> ZeroBox, deleted |-> FALSE, zIndex |-> 0, ref |-> 0 ]
RECURSIVE findHitObject(_, _)
findHitObject(point, objs) ==
  IF Len(objs) = 0 THEN NoObject
  ELSE IF isPointInObject(point, Last(objs)) THEN Last(objs)
  ELSE findHitObject(point, Front(objs))

\* handleMouseDown in SELECT mode: the object selected at a point.
searchBounds(point) == << point[1] - 1, point[2] - 1, 2, 2 >>
hitObject(b, point) == findHitObject(point, findObjectsIn(b, searchBounds(point)))

(* ------------------------------------------------------- the core's calls *)
\* Runs of the core: short ones with every call, and long ones of one object
\* that fill the history.
MaxBoardOps == 4
MaxPushes == 32
MaxOthers == 2
BoardIds == 1..2
BoardBoxes == { <<0, 0, 64, 64>>, <<64, 64, 128, 128>>, <<1024, 1024, 64, 64>> }
HistoryBox == <<0, 0, 64, 64>>

\* The object a caller passes for an id: a new object, with the order of the
\* object it takes the place of when there is one.
Passed(id, bbox) ==
  [ id |-> id, bbox |-> bbox, deleted |-> FALSE,
    zIndex |-> IF id \in DOMAIN stored THEN stored[id].zIndex ELSE 0,
    ref |-> NewRef(Board) ]

\* What loadData is given: nothing, or one object unknown so far.
Loaded ==
  { << >> } \cup
  { << [ id |-> MaxIds, bbox |-> bbox, deleted |-> FALSE, zIndex |-> 0,
         ref |-> NewRef(Board) ] >> : bbox \in BoardBoxes }

\* The commands that have been undone and not redone: those above the
\* cursor.
Undone == { historyStack[i] : i \in (cursor + 2)..Len(historyStack) }

BoardStep(b, op, pushes, emitted) ==
  /\ Commit(b.s)
  /\ stored' = b.stored
  /\ historyStack' = b.stack
  /\ cursor' = b.cursor
  /\ chunks' = b.m.chunks
  /\ objectToChunks' = b.m.objectToChunks
  /\ objects' = b.m.objects
  /\ watch' = IF ~ emitted THEN watch
              ELSE [ op |-> "addObjects", viewport |-> NoViewport, visible |-> ZeroBox,
                     repeated |-> FALSE, rebuilt |-> {}, skipped |-> {} ]
  /\ trail' = [ calls |-> LastTwo(Append(trail.calls, op)),
                pushes |-> trail.pushes + pushes,
                dropped |-> IF pushes = 0 THEN trail.dropped
                            ELSE trail.dropped \cup Undone ]
  /\ ops' = ops + 1
  /\ UNCHANGED << last, removed, given, applied, viewVars >>

NextId(id) == id \in DOMAIN objectStore \/ \A other \in BoardIds \ DOMAIN objectStore : id <= other

Save(id, bbox) ==
  /\ NextId(id)
  /\ BoardStep(save(Board, Passed(id, bbox)), "save", 1, TRUE)

RemoveObject(id) ==
  BoardStep(removeObject(Board, id), "removeObject",
            IF id \in DOMAIN objectStore THEN 1 ELSE 0, id \in DOMAIN objectStore)

Undo == BoardStep(coreUndo(Board), "undo", 0, TRUE)

Redo == BoardStep(coreRedo(Board), "redo", 0, TRUE)

LoadData(objs) == BoardStep(loadData(Board, objs), "loadData", 0, TRUE)

Clean == BoardStep(clean(Board), "clean", 0, FALSE)

InitBoard == InitFrom(Constructed(nodePoolSize, DEFAULT_OPTIONS), << >>)

BoardLeft == ops < MaxBoardOps

NextBoard ==
  \/ \E id \in BoardIds, bbox \in BoardBoxes : BoardLeft /\ Save(id, bbox)
  \/ \E id \in BoardIds : BoardLeft /\ RemoveObject(id)
  \/ BoardLeft /\ Undo
  \/ BoardLeft /\ Redo
  \/ \E objs \in Loaded : BoardLeft /\ LoadData(objs)

SpecBoard == InitBoard /\ [][NextBoard]_vars

NextHistory ==
  \/ trail.pushes < MaxPushes /\ Save(1, HistoryBox)
  \/ ops - trail.pushes < MaxOthers /\ Undo
  \/ ops - trail.pushes < MaxOthers /\ Redo
  \/ ops - trail.pushes < MaxOthers /\ Clean

SpecHistory == InitBoard /\ [][NextHistory]_vars


(* ------------------------------------------- the claims on the core's side *)
\* C25: the history is bounded and well-formed: after any sequence of push,
\* undo, redo and clean the stack holds at most 30 commands and
\* -1 <= cursor <= stack.length - 1; canUndo is cursor >= 0 and canRedo is
\* cursor < stack.length - 1; undo with nothing to undo and redo with nothing
\* to redo change neither the history nor the store.
C25_HistoryWellFormed ==
  /\ Len(historyStack) <= 30
  /\ -1 <= cursor
  /\ cursor <= Len(historyStack) - 1
  /\ canUndo(Board) <=> cursor >= 0
  /\ canRedo(Board) <=> cursor < Len(historyStack) - 1
  /\ cursor < 0 => undo(Board) = Board /\ coreUndo(Board) = Board
  /\ cursor >= Len(historyStack) - 1 => redo(Board) = Board /\ coreRedo(Board) = Board

\* C25 witness: more commands have been pushed than the history holds, the
\* last one just now: the stack is full and the cursor is on its last
\* command.
C25_Witness ==
  /\ trail.pushes > MAX_HISTORY_LENGTH
  /\ Last(trail.calls) = "save"
  /\ Len(historyStack) = MAX_HISTORY_LENGTH
  /\ cursor = MAX_HISTORY_LENGTH - 1

\* The indexed objects: the ids getAll returns, each with the box the index
\* holds for it.
IndexedObjects(b) ==
  [ i \in DOMAIN getAll(b) |->
      << getAll(b)[i].id,
         readBoundingBox(b.s, b.s.objectIndex[getAll(b)[i].id].handle) >> ]

HitPoints == { <<32, 32>>, <<64, 64>>, <<100, 100>>, <<1050, 1050>> }

\* The candidates of a click that contain the point.
Hits(b, point) ==
  { findObjectsIn(b, searchBounds(point))[i] :
      i \in { j \in DOMAIN findObjectsIn(b, searchBounds(point)) :
                isPointInObject(point, findObjectsIn(b, searchBounds(point))[j]) } }

\* C27: hit selection picks the topmost object: findHitObject returns the
\* candidate with the greatest zIndex among those that contain the point, or
\* null when none does, whatever the order of the candidates.
C27_TopmostHit ==
  \A point \in HitPoints :
    /\ Hits(Board, point) = {} => hitObject(Board, point) = NoObject
    /\ Hits(Board, point) # {} =>
         /\ hitObject(Board, point) \in Hits(Board, point)
         /\ \A o \in Hits(Board, point) : o.zIndex <= hitObject(Board, point).zIndex

\* C30: the chunk cache follows deletions: after the renderer has processed
\* the objectsUpdate notification of a call, a chunk holds segments only of
\* objects that are in the store and not marked deleted; none of an object
\* that the undo of its add removed, that removeObject marked deleted, or
\* that loadData replaced.
C30_ChunksFollowDeletions ==
  \A id \in Ids :
    Holding(id) # {} => id \in DOMAIN objectIndex /\ ~ stored[id].deleted


(* ------------------------------------------ last claims on the ObjectStore *)
\* How often handle h is carried in a list of handles.
Occurrences(handles, h) == Cardinality({ i \in DOMAIN handles : handles[i] = h })

\* The number of references, over all the nodes of the tree, that carry h.
Carried(h) ==
  Cardinality({ << n, i >> \in TreeNodes \X (1..(objectRefUsed + 1)) :
                  i \in DOMAIN NodeHandles(n) /\ NodeHandles(n)[i] = h })

\* C31: a region query returns each live object at most once: the handles
\* one findInBounds call writes are pairwise distinct, and every live handle
\* is carried by exactly one reference in exactly one node's list.
C31_ReturnedOnce ==
  /\ \A q \in Queries :
       \A h \in Found(q) : Occurrences(findInBounds(Store, q).out, h) = 1
  /\ \A id \in LiveIds : Carried(objectIndex[id].handle) = 1


\* The bounds splitNode gives child i of a node with bounds nb.
Quadrant(nb, i) ==
  << nb[1] + (IF i \in {1, 3} THEN nb[3] \div 2 ELSE 0 - nb[3] \div 2),
     nb[2] + (IF i \in {2, 3} THEN nb[4] \div 2 ELSE 0 - nb[4] \div 2),
     nb[3] \div 2, nb[4] \div 2 >>

\* The loose bounds of a (centre and half extents times 1.5, doubled) lie
\* inside those of b.
LooseInside(a, b) ==
  /\ 2 * a[1] - 3 * a[3] >= 2 * b[1] - 3 * b[3]
  /\ 2 * a[1] + 3 * a[3] <= 2 * b[1] + 3 * b[3]
  /\ 2 * a[2] - 3 * a[4] >= 2 * b[2] - 3 * b[4]
  /\ 2 * a[2] + 3 * a[4] <= 2 * b[2] + 3 * b[4]

\* C32: the quadtree geometry is consistent: the bounds of every node other
\* than the root are the corresponding quadrant of its parent's current
\* bounds, so that a child's loose bounds lie inside its parent's; this is
\* kept when insert grows the root to cover a new box.
C32_QuadrantGeometry ==
  \A n \in TreeNodes : \A i \in 0..(CHILDREN_PER_NODE - 1) :
    getChild(Store, n, i) # None =>
      /\ getBounds(Store, getChild(Store, n, i)) = Quadrant(getBounds(Store, n), i)
      /\ LooseInside(getBounds(Store, getChild(Store, n, i)), getBounds(Store, n))


\* The handles carried by the list of node n in store s, in list order.
handlesOf(s, n) == listHandles(s, getFirstObject(s, n), s.objectRefUsed + 1)

\* The handles carried by the lists of the children of p, slot by slot.
RECURSIVE childrenHandles(_, _, _)
childrenHandles(s, p, i) ==
  IF i = CHILDREN_PER_NODE THEN << >>
  ELSE (IF getChild(s, p, i) = None THEN << >>
        ELSE handlesOf(s, getChild(s, p, i)))
       \o childrenHandles(s, p, i + 1)

\* The references the children of p hold together.
RECURSIVE siblingsTotal(_, _, _)
siblingsTotal(s, p, i) ==
  IF i = CHILDREN_PER_NODE THEN 0
  ELSE (IF getChild(s, p, i) = None THEN 0
        ELSE getObjectCount(s, getChild(s, p, i)))
       + siblingsTotal(s, p, i + 1)

\* Every child slot of p that is in use holds a leaf, and the children
\* together hold fewer than `limit` references.
Underflow(s, p, limit) ==
  /\ p # None
  /\ \A i \in 0..(CHILDREN_PER_NODE - 1) :
       getChild(s, p, i) # None => isLeaf(s, getChild(s, p, i))
  /\ siblingsTotal(s, p, 0) < limit

\* `after` is `before` with the children of p collapsed into p.
Collapsed(before, after, p) ==
  /\ isLeaf(after, p)
  /\ \A h \in 0..before.objectCapacity :
       Occurrences(handlesOf(after, p), h)
         = Occurrences(handlesOf(before, p), h)
             + Occurrences(childrenHandles(before, p, 0), h)
  /\ \A i \in 0..(CHILDREN_PER_NODE - 1) :
       /\ getChild(after, p, i) = None
       /\ getChild(before, p, i) # None
            => getChild(before, p, i) \in Range(after.freeList)

\* tryMerge took `before` to `after` for node n as claimed, with the merge
\* made when the siblings hold fewer than `limit` references.
MergedWhenBelow(before, after, n, limit) ==
  IF Underflow(before, getParent(before, n), limit)
    THEN Collapsed(before, after, getParent(before, n))
    ELSE after = before

\* What detachFromNode does after a purge with result p of node n.
DetachMerges(p, n, limit) ==
  p.removed => MergedWhenBelow(p.s, tryMerge(p.s, n), n, limit)

MergesAtThreshold(p, n) ==
  /\ p.removed
  /\ Underflow(p.s, getParent(p.s, n), p.s.options.mergeThreshold + 1)
  /\ siblingsTotal(p.s, getParent(p.s, n), 0) = p.s.options.mergeThreshold
  /\ Collapsed(p.s, tryMerge(p.s, n), getParent(p.s, n))
  /\ tryMerge(p.s, n) # p.s

RECURSIVE listRefs(_, _, _)
listRefs(s, ref, limit) ==
  IF ref = None \/ limit = 0 THEN << >>
  ELSE << ref >> \o listRefs(s, Get(s.objectRefNext, ref, None), limit - 1)

\* The tree nodes whose list links slot r for a live object.
LinkedLive(r) ==
  { n \in TreeNodes :
      /\ r \in Range(listRefs(Store, getFirstObject(Store, n), objectRefUsed + 1))
      /\ \E id \in LiveIds : objectIndex[id].handle = Get(objectRefHandle, r, 0) }

\* C34: reference slots are conserved: the slots in use (handed out and not
\* on the reference free list) are as many as the live objects, and every
\* slot handed out is either on the free list or linked in exactly one
\* node's list for a live object.
C34_SlotsConserved ==
  /\ objectRefUsed - Len(objectRefFreeList) = Cardinality(LiveIds)
  /\ \A r \in 0..(objectRefUsed - 1) :
       IF r \in Range(objectRefFreeList)
         THEN LinkedLive(r) = {}
         ELSE Cardinality(LinkedLive(r)) = 1


(* ------------------------------------------------- last claim on History *)
\* Which command it is: the object an AddObjectCommand was made with, the
\* copy an UpdateObjectCommand was made with.
commandKey(command) ==
  IF command.type = "add" THEN << "add", command.obj.ref >>
  ELSE << "update", command.id, command.oldObj.ref >>

\* `a` is what History.push(command) makes of b: the command has been done
\* once on the store, it is the top of the stack with the cursor on it, the
\* stack holds below it nothing but what was at or below the cursor, and
\* there is nothing to redo.
PushedOnTop(b, command, a) ==
  /\ a.s = commandDo(b, command).s
  /\ a.stored = commandDo(b, command).stored
  /\ Len(a.stack) >= 1
  /\ commandKey(Last(a.stack)) = commandKey(command)
  /\ a.cursor = Len(a.stack) - 1
  /\ Len(a.stack) <= b.cursor + 2
  /\ \A i \in 1..(Len(a.stack) - 1) :
       commandKey(a.stack[i])
         = commandKey(b.stack[i + (b.cursor + 2 - Len(a.stack))])
  /\ ~ canRedo(a)
  /\ redo(a) = a

\* C35: after History.push(c) the command c has been executed once on the
\* store, it is the top of the stack and canRedo is false; and no command
\* that had been undone when a push was made can be executed again by a redo
\* made later: none of them is above the cursor in any later state.
C35_PushCutsRedo ==
  /\ \A id \in BoardIds, bbox \in BoardBoxes :
       NextId(id) =>
         PushedOnTop(Board, saveCommand(Board, Passed(id, bbox)),
                     push(Board, saveCommand(Board, Passed(id, bbox))))
  /\ \A id \in DOMAIN objectStore :
       PushedOnTop(Board, removeCommand(Board, id),
                   push(Board, removeCommand(Board, id)))
  /\ Undone \cap trail.dropped = {}

\* C35 witness: a command has been undone and a save has then pushed a new
\* one, which cut the undone command from the stack.
C35_Witness ==
  /\ trail.calls = << "undo", "save" >>
  /\ trail.dropped # {}
  /\ cursor = Len(historyStack) - 1
  /\ cursor >= 1


(* ---------------------------------------- FastDrawCore: the LOD band *)
\* Scales are in hundredths.  The zoom handlers keep the scale between 0.1
\* and 10; the runs take every hundredth up to FineScales and the greatest
\* scale.
MinScale == 10
MaxScale == 1000
FineScales == 200
Scales == (MinScale..FineScales) \cup {MaxScale}

lodBands == [ near |-> 150, mid |-> 100, far |-> 30 ]
lodHysteresis == [ enter |-> 10, exit |-> 15 ]
Infinity == MaxScale * MaxScale

resolveLodLevel(scale) ==
  IF scale > lodBands.near THEN Near
  ELSE IF scale > lodBands.mid THEN Mid
  ELSE IF scale > lodBands.far THEN Far
  ELSE Overview

getEnterThreshold(level, hysteresis) ==
  CASE level = Overview -> lodBands.far + hysteresis
    [] level = Far -> lodBands.mid + hysteresis
    [] level = Mid -> lodBands.near + hysteresis
    [] OTHER -> Infinity

getExitThreshold(level, hysteresis) ==
  CASE level = Near -> lodBands.near - hysteresis
    [] level = Mid -> lodBands.mid - hysteresis
    [] level = Far -> lodBands.far - hysteresis
    [] OTHER -> 0

\* canSwitch of updateLodLevel for the band nextLevel.
canSwitch(t, nextLevel) ==
  IF nextLevel < t.lodLevel
    THEN t.scale > getEnterThreshold(t.lodLevel, lodHysteresis.enter)
    ELSE t.scale < getExitThreshold(t.lodLevel, lodHysteresis.exit)

\* A faulty variant of updateLodLevel: the band follows the scale at once.
updateLodLevel_Followed(t) == [ t EXCEPT !.lodLevel = resolveLodLevel(t.scale) ]

\* FastDrawCore.updateLodLevel on the transformState t.
updateLodLevel(t) ==
  IF t.lodLevel = resolveLodLevel(t.scale) THEN t
  ELSE IF canSwitch(t, resolveLodLevel(t.scale))
    THEN [ t EXCEPT !.lodLevel = resolveLodLevel(t.scale) ]
    ELSE t

ViewStep(t) ==
  /\ transformState' = t
  /\ UNCHANGED << storeVars, last, removed, given, ops, applied, chunkVars,
                  boardVars, renderer >>

\* handleWheel, and the pinch of handleTouchMove: the new scale is set and
\* updateLodLevel is called.
Zoom(newScale) ==
  ViewStep(updateLodLevel([ transformState EXCEPT !.scale = newScale ]))

\* handlePanMove: the scale is left as it is.
PanMove == ViewStep(updateLodLevel(transformState))

\* setWrapperElement: initializeView sets the scale to 1.
SetWrapperElement ==
  ViewStep(updateLodLevel([ transformState EXCEPT !.scale = 100 ]))

NextView ==
  \/ \E newScale \in Scales : Zoom(newScale)
  \/ PanMove
  \/ SetWrapperElement

SpecView == InitBoard /\ [][NextView]_vars

(* ------------------------------------------------ the claim on the LOD band *)
\* The boundaries between the bands, and the upper and the lower boundary of
\* a band.
Boundaries == { lodBands.far, lodBands.mid, lodBands.near }
UpperBoundary(level) ==
  CASE level = Overview -> lodBands.far
    [] level = Far -> lodBands.mid
    [] level = Mid -> lodBands.near
    [] OTHER -> Infinity
LowerBoundary(level) ==
  CASE level = Near -> lodBands.near
    [] level = Mid -> lodBands.mid
    [] level = Far -> lodBands.far
    [] OTHER -> 0

\* The scale is inside (b - 0.15, b + 0.1).
InsideMargin(scale, b) == b - 15 < scale /\ scale < b + 10

\* The band changes in this step only as claimed.
SwitchedOnlyBeyond ==
  transformState'.lodLevel # transformState.lodLevel =>
    /\ transformState'.lodLevel = resolveLodLevel(transformState'.scale)
    /\ \/ /\ transformState'.lodLevel < transformState.lodLevel
          /\ transformState'.scale > UpperBoundary(transformState.lodLevel) + 10
       \/ /\ transformState'.lodLevel > transformState.lodLevel
          /\ transformState'.scale < LowerBoundary(transformState.lodLevel) - 15

\* The band is kept in a step that leaves the scale inside the margin of a
\* boundary.
KeptInsideMargin ==
  \A b \in Boundaries :
    InsideMargin(transformState.scale, b) /\ InsideMargin(transformState'.scale, b)
      => transformState'.lodLevel = transformState.lodLevel

\* C36: LOD-band hysteresis: updateLodLevel moves to the band resolved from
\* the current scale only when, zooming in, the scale exceeds the upper
\* boundary of the current band by more than 0.1 or, zooming out, falls below
\* its lower boundary by more than 0.15; while the scale stays inside
\* (b - 0.15, b + 0.1) around a boundary b the band never changes.
C36_LodHysteresis == [][SwitchedOnlyBeyond /\ KeptInsideMargin]_vars

\* C36 witness: the scale is above the boundary 1.0 and inside its margin,
\* and the band is still Far: the band resolved from the scale, Mid, has not
\* been taken.
C36_Witness ==
  /\ transformState.lodLevel = Far
  /\ transformState.scale > lodBands.mid
  /\ InsideMargin(transformState.scale, lodBands.mid)
  /\ resolveLodLevel(transformState.scale) = Mid


\* The reference slots linked in the list of tree node n.
NodeRefs(n) == listRefs(Store, getFirstObject(Store, n), objectRefUsed + 1)

\* The nodes reachable from the root form a tree, and every node's list is
\* finite, without a cycle, and as long as the node's object count says.
WellFormedTree ==
  /\ \A p \in TreeNodes, i \in 0..(CHILDREN_PER_NODE - 1) :
       getChild(Store, p, i) # rootNodeId
  /\ \A n \in TreeNodes \ {rootNodeId} :
       Cardinality({ << p, i >> \in TreeNodes \X (0..(CHILDREN_PER_NODE - 1)) :
                       getChild(Store, p, i) = n }) = 1
  /\ \A n \in TreeNodes :
       /\ Len(NodeRefs(n)) <= objectRefUsed
       /\ Cardinality(Range(NodeRefs(n))) = Len(NodeRefs(n))
       /\ Len(NodeRefs(n)) = getObjectCount(Store, n)

\* The visit guard for a pool of `poolSize` nodes: the guard of the code,
\* MAX_NODE_VISITS for the default pool of nodePoolSize nodes, scaled with
\* the pool.
visitsAllowed(poolSize) == (MAX_NODE_VISITS * poolSize) \div nodePoolSize

\* The walk with a guard that a tree within the pool cannot reach.
Unguarded(q) ==
  findLoop(Store, q, << rootNodeId >>, 0, << >>, capacity + 1).out

\* C37: every findInBounds call ends with its stack emptied: the nodes
\* reachable from the root are a finite tree and every node's list is finite
\* and acyclic, so the walk never hits its visit guard (more nodes popped
\* than the guard allows, 10000 out of a pool of 16384) nor its traversal
\* guard (a list longer than twice the node's count plus 10), and returns
\* what the walk without the guards returns.
C37_GuardsNeverHit ==
  /\ WellFormedTree
  /\ \A q \in Queries :
       findLoop(Store, q, << rootNodeId >>, 0, << >>, visitsAllowed(capacity)).out
         = Unguarded(q)


(* ------------------------------------------------ the Dynamic handles *)
\* collectDynamicObjects(outBuffer), the out buffer being large enough: the
\* handles written, in the order of dynamicHandles.
collectDynamicObjects(s) ==
  SelectSeq(s.dynamicHandles,
            LAMBDA h : /\ Dynamic \in Get(s.objectFlags, h, {})
                       /\ Deleted \notin Get(s.objectFlags, h, {}))

\* A store in which object 1 has just turned Dynamic: constructed with the
\* options of the churn runs, then insert(1, box) and as many updates of its
\* box as the threshold asks for.
ChurnedBox == <<0, 0, 64, 64>>
Churned ==
  updateBoundingBox(
    updateBoundingBox(
      insert(Constructed(nodePoolSize, ChurnOptions), 1, ChurnedBox, {}),
      1, ChurnedBox).s,
    1, ChurnedBox).s
InitChurned == InitFrom(Churned, << ChurnedBox >>)
\* Runs of MaxOpsChurned calls from there.
MaxOpsChurned == 3
ChurnedLeft == ops < MaxOpsChurned
NextChurned ==
  \/ \E id \in Ids, bbox \in Boxes : ChurnedLeft /\ Insert(id, bbox)
  \/ \E id \in Ids, bbox \in Boxes : ChurnedLeft /\ Add(id, bbox)
  \/ \E id \in Ids, bbox \in Boxes : ChurnedLeft /\ BulkLoad(id, bbox)
  \/ \E id \in Ids, bbox \in Boxes : ChurnedLeft /\ UpdateBoundingBox(id, bbox)
  \/ \E id \in Ids : ChurnedLeft /\ Remove(id)
  \/ \E q \in Queries : ChurnedLeft /\ FindInBounds(q)
SpecChurned == InitChurned /\ [][NextChurned]_vars

\* The live handles that are flagged Dynamic.
LiveDynamic ==
  { objectIndex[id].handle : id \in LiveIds }
    \cap { h \in DOMAIN objectFlags : Dynamic \in objectFlags[h] }

\* C38: collectDynamicObjects returns exactly the live handles that are
\* flagged Dynamic, each of them once, after any sequence of updates,
\* re-inserts of an existing id (which reset the flags) and removals followed
\* by the reuse of the handle.
C38_DynamicOnce ==
  /\ Range(collectDynamicObjects(Store)) = LiveDynamic
  /\ \A h \in LiveDynamic : Occurrences(collectDynamicObjects(Store), h) = 1


(* ------------------------------------------- updates of an unknown object *)
\* C39: update(id, obj) and updateBoundingBox(id, bbox) for an id that is not
\* indexed report 'failed' and leave the whole store as it was: get(id) and
\* getAll return what they returned before, and no handle, reference or node
\* is touched.
C39_FailedUpdateUnchanged ==
  \A id \in Ids \ DOMAIN objectIndex, bbox \in Boxes :
    /\ updateBoundingBox(Store, id, bbox).status = "failed"
    /\ updateBoundingBox(Store, id, bbox).s = Store
    /\ getAll(storeUpdate(Board, id, Passed(id, bbox))) = getAll(Board)
    /\ get(storeUpdate(Board, id, Passed(id, bbox)).s, id) = get(Store, id)
    /\ storeUpdate(Board, id, Passed(id, bbox)).s = Store


(* ------------------------------------------ BoardRenderer: init and destroy *)
\* The constructor has created the application and called init, which waits
\* for PIXI's app.init.  What is left are four steps of the event loop: the
\* awaited app.init resolves and init runs to its end, or it rejects;
\* destroy() is called; the timer destroy() set fires; and, in between, the
\* ticker calls render and the core emits objectsUpdate.  The runs take
\* MaxRendererSaves calls of save and MaxTicks calls of render; ops counts
\* both.
MaxRendererSaves == 2
MaxTicks == 1

\* this.core.objects.filter(o => !o.deleted)
initialObjects(b) == SelectSeq(getAll(b), LAMBDA o : ~ o.deleted)

RendererStep(r, m) ==
  /\ renderer' = r
  /\ chunks' = m.chunks
  /\ objectToChunks' = m.objectToChunks
  /\ objects' = m.objects
  /\ ops' = IF r = renderer THEN ops + 1 ELSE ops
  /\ UNCHANGED << storeVars, last, removed, given, applied, watch, boardVars,
                  transformState >>

\* init after the await.  With this.app set to null by the timer of destroy,
\* reading this.app.canvas throws and init ends there.  Otherwise the resize
\* listener is registered, the render callback is added to the ticker and the
\* ticker started, and a new ChunkManager is given the objects of the core;
\* that destroy() has been called plays no part.
InitResumed ==
  /\ renderer.init = "pending"
  /\ IF ~ renderer.app
       THEN RendererStep([ renderer EXCEPT !.init = "failed" ], Manager)
       ELSE RendererStep(
              [ renderer EXCEPT !.init = "done", !.resizeHandler = TRUE,
                                !.listening = TRUE, !.ticking = TRUE,
                                !.chunkManager = TRUE,
                                !.late = (renderer.destroy # "none") ],
              addObjects(clear(Manager), forRender(initialObjects(Board))))

\* The awaited app.init rejects: init rethrows.
InitRejected ==
  /\ renderer.init = "pending"
  /\ RendererStep([ renderer EXCEPT !.init = "failed" ], Manager)

\* destroy(): the listener is removed if resizeHandler is set, the chunk
\* manager is cleared if there is one, the ticker is stopped if it has been
\* started, and the destruction of the application is left to a timer.
Destroy ==
  /\ renderer.destroy = "none"
  /\ RendererStep(
       [ renderer EXCEPT !.destroy = "called",
                         !.listening = IF renderer.resizeHandler THEN FALSE ELSE @,
                         !.ticking = FALSE ],
       IF renderer.chunkManager THEN clear(Manager) ELSE Manager)

\* The timer of destroy: app.destroy(), which ends the application's ticker,
\* and this.app = null.
DestroyTimer ==
  /\ renderer.destroy = "called"
  /\ RendererStep([ renderer EXCEPT !.destroy = "done", !.app = FALSE,
                                    !.ticking = FALSE ],
                  Manager)

\* The ticker's callback: render, which updates the visible chunks.
Tick(viewport, visible) ==
  /\ ops - trail.pushes < MaxTicks
  /\ renderer.ticking
  /\ renderer.app
  /\ RendererStep(renderer, updateVisibleChunks(Manager, viewport, visible))

\* FastDrawCore.save before the teardown; the listener of objectsUpdate
\* reaches the chunk manager if there is one.
RendererSave(id, bbox) ==
  /\ renderer.destroy = "none"
  /\ trail.pushes < MaxRendererSaves
  /\ NextId(id)
  /\ BoardStep(IF renderer.chunkManager
                 THEN save(Board, Passed(id, bbox))
                 ELSE push(Board, saveCommand(Board, Passed(id, bbox))),
               "save", 1, renderer.chunkManager)

NextRenderer ==
  \/ InitResumed
  \/ InitRejected
  \/ Destroy
  \/ DestroyTimer
  \/ \E viewport \in Viewports, visible \in VisibleRects : Tick(viewport, visible)
  \/ \E id \in BoardIds, bbox \in BoardBoxes : RendererSave(id, bbox)

SpecRenderer == InitBoard /\ [][NextRenderer]_vars

\* init and destroy have both come to their end.
TornDown == renderer.init # "pending" /\ renderer.destroy = "done"

\* C40: the teardown of the renderer is safe against the pending init: in
\* whichever order destroy(), its timer and the end of the awaited app.init
\* come, once init and destroy have both finished no resize listener is
\* registered, no ticker callback runs, the chunk manager holds no chunks,
\* and init has not gone on with the application after destroy() was called.
C40_TeardownSafe ==
  TornDown =>
    /\ ~ renderer.listening
    /\ ~ renderer.ticking
    /\ chunks = << >>
    /\ ~ renderer.late

====
